---------------------------- MODULE Spec2Model ----------------------------
(***************************************************************************)
(* Product reconciliation of abdupa/ContentPipeline: the WooCommerce sync  *)
(* task (data_tasks.update_woocommerce_products_task), the catalog refresh *)
(* task (data_tasks.update_product_database_task), the API handler that    *)
(* queues the sync (main.process_staged_data), the local mirror file, the  *)
(* job-status store and the external catalog they talk to.                 *)
(***************************************************************************)
EXTENDS Integers, Sequences, FiniteSets, TLC

(***************************************************************************)
(* Program constants.                                                      *)
(***************************************************************************)
CHUNK_SIZE == 25
MAX_API_RETRIES == 3
MAX_SINGLE_PRODUCT_RETRIES == 3
JOB_TTL == 3600
AUDIT_TTL == 86400
PER_PAGE == 100
STAGING_TTL == 3600

(***************************************************************************)
(* Bounds of the model.                                                    *)
(***************************************************************************)
\* longest approved-row list of the chunking scenarios (3 chunks need 51)
MaxRows == 51
\* longest approved-row list of the row-routing scenarios
MaxShort == 2
\* last calendar day the clock may reach (the model starts on day 1)
MaxDay == 2
\* longest text given to extract_prices, in tokens
MaxTokens == 3
\* longest string given to slugify, in characters
MaxSlugLen == 4
\* longest sheet of the import scenarios, in rows
MaxGrid == 2
\* the clock of the status store advances by TimeStep seconds, MaxSteps times
TimeStep == 1800
MaxSteps == 3

(***************************************************************************)
(* Python values.  A value is a pair <<type, n>>; a numeric string is      *)
(* kept by the number it spells, the empty string is its own value.        *)
(***************************************************************************)
None == <<"none", 0>>
EmptyStr == <<"empty", 0>>
PyFloat(n) == <<"float", n>>
PyInt(n) == <<"int", n>>
PyStr(n) == <<"str", n>>

\* Python truthiness: None, 0, 0.0 and "" are false
Truthy(v) ==
    CASE v[1] = "none" -> FALSE
      [] v[1] = "empty" -> FALSE
      [] v[1] = "float" -> v[2] # 0
      [] v[1] = "int" -> v[2] # 0
      [] OTHER -> TRUE

\* a or b
PyOr(a, b) == IF Truthy(a) THEN a ELSE b

\* float(v) inside try/except (ValueError, TypeError): None when it raises
ToFloat(v) ==
    CASE v[1] = "float" -> v
      [] v[1] = "int" -> PyFloat(v[2])
      [] v[1] = "str" -> PyFloat(v[2])
      [] v[1] = "cents" -> v
      [] OTHER -> None

\* int(v) inside try/except (ValueError, TypeError): None when it raises
ToInt(v) ==
    CASE v[1] = "int" -> v
      [] v[1] = "float" -> PyInt(v[2])
      [] v[1] = "str" -> PyInt(v[2])
      [] OTHER -> None

\* str(v) of a number: the string spelling it
ToStr(v) == IF v[1] \in {"float", "int"} THEN PyStr(v[2]) ELSE v

\* str(v or ""): the external-id metadata values of a payload
StrOrEmpty(s) == IF s = "<None>" \/ s = "" THEN "" ELSE s

\* json.dumps / json.loads of a price history
Dumps(h) == <<"json", h>>
Loads(s) == s[2]

(***************************************************************************)
(* Sequences.                                                              *)
(***************************************************************************)
IsPrefix(s, t) == Len(s) <= Len(t) /\ \A i \in 1..Len(s) : s[i] = t[i]

Min(a, b) == IF a <= b THEN a ELSE b

RECURSIVE Flatten(_)
Flatten(ss) == IF ss = <<>> THEN <<>> ELSE Head(ss) \o Flatten(Tail(ss))


(***************************************************************************)
(* update_woocommerce_products_task: the row loop (pure part).             *)
(* A mirror record is a record with the fields id, name, slug, sale_price, *)
(* regular_price, shopee_id, lazada_id, shop_id, external_url, button_text *)
(* and price_history; an approved row is a StagedProduct.dict().           *)
(***************************************************************************)
NoneStr == "<None>"

\* s or d, for an Optional[str]
StrOr(s, d) == IF s = NoneStr \/ s = "" THEN d ELSE s

\* product_map_by_id = {prod['id']: prod ...}: of two records with one id
\* the later one is kept; 0 when the id is not a key
MapIndex(local, id) ==
    LET S == {i \in DOMAIN local : local[i].id = id}
    IN  IF S = {} THEN 0 ELSE CHOOSE i \in S : \A k \in S : k <= i

\* the id to find if the action were not consulted
RawIdAnyAction(row) == PyOr(row.matched_db_id, row.linked_db_id)

\* raw_id_to_find: chosen by the action
RawIdToFind(row) ==
    IF row.action = "approve" THEN row.matched_db_id
    ELSE IF row.action = "link" THEN row.linked_db_id
    ELSE None

\* target_db_id = int(raw_id_to_find), None when absent or not convertible
TargetDbId(row) ==
    IF RawIdToFind(row) # None THEN ToInt(RawIdToFind(row)) ELSE None

\* the lookup if it gave the first record for every id
LookupIndexFirst(local, row) ==
    IF Truthy(TargetDbId(row)) /\ local # <<>> THEN 1 ELSE 0

\* local_prod_to_update: the index of the record in local_products, 0 = None
LookupIndex(local, row) ==
    IF Truthy(TargetDbId(row)) THEN MapIndex(local, TargetDbId(row)[2]) ELSE 0

\* price_to_log: both prices -> sale, else regular, else sale, else None
PriceToLog(row) ==
    IF Truthy(row.new_sale_price) /\ Truthy(row.new_regular_price)
        THEN row.new_sale_price
    ELSE IF Truthy(row.new_regular_price) THEN row.new_regular_price
    ELSE IF Truthy(row.new_sale_price) THEN row.new_sale_price
    ELSE None

\* final_sale_price_str, final_reg_price_str, final_main_price_str
FinalPriceStrs(row) ==
    IF Truthy(row.new_sale_price) /\ Truthy(row.new_regular_price)
        THEN [sale_price |-> ToStr(row.new_sale_price),
              regular_price |-> ToStr(row.new_regular_price),
              price |-> ToStr(row.new_sale_price)]
    ELSE IF Truthy(row.new_regular_price)
        THEN [sale_price |-> EmptyStr,
              regular_price |-> ToStr(row.new_regular_price),
              price |-> ToStr(row.new_regular_price)]
    ELSE IF Truthy(row.new_sale_price)
        THEN [sale_price |-> EmptyStr,
              regular_price |-> ToStr(row.new_sale_price),
              price |-> ToStr(row.new_sale_price)]
    ELSE [sale_price |-> EmptyStr, regular_price |-> EmptyStr, price |-> EmptyStr]

\* the current price read as float(regular_price or sale_price)
CurrentPriceRegularFirst(rec) == ToFloat(PyOr(rec.regular_price, rec.sale_price))

\* current_price_float = float(sale_price or regular_price), None on error
CurrentPriceFloat(rec) == ToFloat(PyOr(rec.sale_price, rec.regular_price))

\* price_changed
PriceChanged(rec, row) ==
    PriceToLog(row) # None /\ PriceToLog(row) # CurrentPriceFloat(rec)

\* the history after the row if the price before were never written to it
NewHistoryTodayOnly(rec, row, today, yesterday) ==
    IF PriceChanged(rec, row)
    THEN Append(rec.price_history, [date |-> today, price |-> PriceToLog(row)[2]])
    ELSE rec.price_history

\* the history after the row: untouched, or backfilled and appended
NewHistory(rec, row, today, yesterday) ==
    IF PriceChanged(rec, row)
    THEN (IF rec.price_history = <<>> /\ CurrentPriceFloat(rec) # None
          THEN <<[date |-> yesterday, price |-> CurrentPriceFloat(rec)[2]]>>
          ELSE rec.price_history)
         \o <<[date |-> today, price |-> PriceToLog(row)[2]]>>
    ELSE rec.price_history

\* local_prod_to_update after the two update() calls and the history append
MergeRow(rec, row, today, yesterday) ==
    [rec EXCEPT
        !.name = row.parsed_name,
        !.shopee_id = row.shopee_id,
        !.lazada_id = row.lazada_id,
        !.shop_id = row.shop_id,
        !.external_url = row.affiliate_link,
        !.button_text = StrOr(row.button_text, "Check Price"),
        !.sale_price = IF PriceChanged(rec, row) THEN row.new_sale_price ELSE @,
        !.regular_price = IF PriceChanged(rec, row) THEN row.new_regular_price ELSE @,
        !.price_history = NewHistory(rec, row, today, yesterday)]

\* product_api_data
BuildPayload(rec, row, today, yesterday) ==
    [id |-> rec.id,
     name |-> row.parsed_name,
     external_url |-> row.affiliate_link,
     button_text |-> StrOr(row.button_text, "Check Price"),
     price |-> FinalPriceStrs(row).price,
     regular_price |-> FinalPriceStrs(row).regular_price,
     sale_price |-> FinalPriceStrs(row).sale_price,
     meta_shopee_id |-> StrOrEmpty(row.shopee_id),
     meta_lazada_id |-> StrOrEmpty(row.lazada_id),
     meta_shop_id |-> StrOrEmpty(row.shop_id),
     meta_price_history |-> Dumps(NewHistory(rec, row, today, yesterday))]

\* audit_entry
BuildAuditEntry(rec, row) ==
    [name |-> row.parsed_name,
     wc_id |-> rec.id,
     status |-> IF PriceChanged(rec, row) THEN "Price Updated" ELSE "Synced",
     price_before |-> CurrentPriceFloat(rec),
     price_after |-> IF PriceChanged(rec, row) THEN PriceToLog(row)
                     ELSE CurrentPriceFloat(rec)]

\* one pass of the loop body (lines 202-274) over approved_prod = row; st is
\* [local, payload, audit]: local_products, wc_full_batch_payload and
\* audit_log_entries.  today is today_str (line 197), yesterday is
\* datetime.now() - timedelta(days=1), read when the row is processed
ProcessRow(st, row, today, yesterday) ==
    LET i == LookupIndex(st.local, row)
    IN  IF i = 0 THEN st
        ELSE [local |-> [st.local EXCEPT
                            ![i] = MergeRow(st.local[i], row, today, yesterday)],
              payload |-> Append(st.payload,
                                 BuildPayload(st.local[i], row, today, yesterday)),
              audit |-> Append(st.audit, BuildAuditEntry(st.local[i], row))]

\* len(chunks): one slice per i in range(0, len(payload), CHUNK_SIZE)
NumChunks(n) == (n + CHUNK_SIZE - 1) \div CHUNK_SIZE

\* the slice if it stopped one item short of the next chunk's start
ChunkOfShort(payload, c) ==
    SubSeq(payload, (c - 1) * CHUNK_SIZE + 1, Min(c * CHUNK_SIZE - 1, Len(payload)))

\* chunks[c - 1] = wc_full_batch_payload[(c-1)*CHUNK_SIZE : c*CHUNK_SIZE]
ChunkOf(payload, c) ==
    SubSeq(payload, (c - 1) * CHUNK_SIZE + 1, Min(c * CHUNK_SIZE, Len(payload)))

Chunks(payload) == [c \in 1..NumChunks(Len(payload)) |-> ChunkOf(payload, c)]

(***************************************************************************)
(* The external catalog (WooCommerce).  A product is a record with the     *)
(* fields id, name, slug, sale_price, regular_price, external_url,         *)
(* button_text and the metadata meta_shopee_id, meta_lazada_id,            *)
(* meta_shop_id, meta_price_history.                                       *)
(***************************************************************************)
ProductIds == {1, 2}

\* what POST products/batch {"update": [item]} does to one product
CatalogUpdateOne(cat, item) ==
    IF item.id \in DOMAIN cat
    THEN [cat EXCEPT ![item.id] =
            [@ EXCEPT !.name = item.name,
                      !.external_url = item.external_url,
                      !.button_text = item.button_text,
                      !.regular_price = item.regular_price,
                      !.sale_price = item.sale_price,
                      !.meta_shopee_id = item.meta_shopee_id,
                      !.meta_lazada_id = item.meta_lazada_id,
                      !.meta_shop_id = item.meta_shop_id,
                      !.meta_price_history = item.meta_price_history]]
    ELSE cat

\* the last item of the batch that updates product id, 0 when there is none
LastItemFor(chunk, id) ==
    LET S == {k \in DOMAIN chunk : chunk[k].id = id}
    IN  IF S = {} THEN 0 ELSE CHOOSE k \in S : \A m \in S : m <= k

\* an accepted batch: the items are applied in order; every item sets the same
\* fields, so a product ends as its last item leaves it
CatalogApply(cat, chunk) ==
    [id \in DOMAIN cat |->
        IF LastItemFor(chunk, id) = 0 THEN cat[id]
        ELSE CatalogUpdateOne(cat, chunk[LastItemFor(chunk, id)])[id]]

\* the ids GET products?per_page=100&page=p returns
RECURSIVE SortedIds(_)
SortedIds(S) ==
    IF S = {} THEN <<>>
    ELSE LET m == CHOOSE x \in S : \A y \in S : x <= y
         IN  <<m>> \o SortedIds(S \ {m})

ListPage(cat, page) ==
    LET ids == SortedIds(DOMAIN cat)
    IN  SubSeq(ids, (page - 1) * PER_PAGE + 1, Min(page * PER_PAGE, Len(ids)))

(***************************************************************************)
(* update_product_database_task: the mirror record built from one product. *)
(***************************************************************************)
RecordFromProduct(p) ==
    [id |-> p.id,
     name |-> p.name,
     slug |-> p.slug,
     sale_price |-> p.sale_price,
     regular_price |-> p.regular_price,
     shopee_id |-> p.meta_shopee_id,
     lazada_id |-> p.meta_lazada_id,
     shop_id |-> p.meta_shop_id,
     external_url |-> p.external_url,
     button_text |-> p.button_text,
     price_history |-> Loads(p.meta_price_history)]

\* the record built from the JSON object of an error ({"code", "message",
\* "data"}): every product.get() gives None, written 0 for the id, and
\* meta_data is missing
RecordFromError ==
    [id |-> 0,
     name |-> NoneStr,
     slug |-> NoneStr,
     sale_price |-> None,
     regular_price |-> None,
     shopee_id |-> NoneStr,
     lazada_id |-> NoneStr,
     shop_id |-> NoneStr,
     external_url |-> NoneStr,
     button_text |-> NoneStr,
     price_history |-> <<>>]

\* _create_audit_log: the line appended to audit_log.jsonl
AuditLine(status, total_found, total_synced, failed_ids) ==
    [task_name |-> "deep_sync_product_database",
     status |-> status,
     total_products_on_wc |-> total_found,
     products_synced_successfully |-> total_synced,
     products_failed_to_sync |-> Len(failed_ids),
     failed_product_ids |-> failed_ids]

(***************************************************************************)
(* sheet_parser: strings.  A string is a sequence of characters; a         *)
(* character is written as a one-letter string, and the two characters     *)
(* outside ASCII that the parsers meet by a name: "peso" (the currency     *)
(* sign) and "e_acute" (a letter that NFKD decomposes to e and an accent). *)
(***************************************************************************)
Digits == {"0", "1", "2", "3", "4", "5", "6", "7", "8", "9"}

UpperChars == <<"A", "B", "C", "D", "E", "F", "G", "H", "I", "J", "K", "L", "M",
                "N", "O", "P", "Q", "R", "S", "T", "U", "V", "W", "X", "Y", "Z">>

LowerChars == <<"a", "b", "c", "d", "e", "f", "g", "h", "i", "j", "k", "l", "m",
                "n", "o", "p", "q", "r", "s", "t", "u", "v", "w", "x", "y", "z">>

IsDigit(c) == c \in Digits

\* \s
IsSpace(c) == c \in {" ", "\t"}

\* the elements of v at the indices in I, in order
Pick(v, I) == [k \in 1..Cardinality(I) |-> v[SortedIds(I)[k]]]

\* the value of a string of digits
RECURSIVE DigitsValue(_)
DigitsValue(v) ==
    IF v = <<>> THEN 0
    ELSE 10 * DigitsValue(SubSeq(v, 1, Len(v) - 1))
         + (CHOOSE d \in 0..9 : ToString(d) = v[Len(v)])

\* the first and the last index of the run of digits that holds index k
RunStart(v, k) == CHOOSE a \in 1..k :
    /\ \A i \in a..k : IsDigit(v[i])
    /\ a = 1 \/ ~IsDigit(v[a - 1])

RunEnd(v, k) == CHOOSE b \in k..Len(v) :
    /\ \A i \in k..b : IsDigit(v[i])
    /\ b = Len(v) \/ ~IsDigit(v[b + 1])

(***************************************************************************)
(* sheet_parser.slugify, line by line.                                     *)
(***************************************************************************)
\* unicodedata.normalize('NFKD', value).encode('ascii', 'ignore')
AsciiOf(c) ==
    IF c = "e_acute" THEN <<"e">> ELSE IF c = "peso" THEN <<>> ELSE <<c>>

RECURSIVE NfkdAscii(_)
NfkdAscii(v) == IF v = <<>> THEN <<>> ELSE AsciiOf(Head(v)) \o NfkdAscii(Tail(v))

\* value.lower()
LowerOf(c) ==
    IF \E k \in DOMAIN UpperChars : UpperChars[k] = c
    THEN LowerChars[CHOOSE k \in DOMAIN UpperChars : UpperChars[k] = c]
    ELSE c

ToLower(v) == [i \in DOMAIN v |-> LowerOf(v[i])]

\* value.replace("+", "-plus")
RECURSIVE ReplacePlus(_)
ReplacePlus(v) ==
    IF v = <<>> THEN <<>>
    ELSE (IF Head(v) = "+" THEN <<"-", "p", "l", "u", "s">> ELSE <<Head(v)>>)
         \o ReplacePlus(Tail(v))

\* the dots that re.sub(r'(\d+)\.(\d+)', ...) replaces, scanning from index
\* i with the matches so far ending before pos: a dot between two digits,
\* unless the digits before it were taken by the match before
RECURSIVE DecimalDots(_, _, _)
DecimalDots(v, i, pos) ==
    IF i > Len(v) THEN {}
    ELSE IF /\ v[i] = "." /\ i > 1 /\ i < Len(v)
            /\ IsDigit(v[i - 1]) /\ IsDigit(v[i + 1])
            /\ RunStart(v, i - 1) >= pos
         THEN {i} \cup DecimalDots(v, i + 1, RunEnd(v, i + 1) + 1)
         ELSE DecimalDots(v, i + 1, pos)

\* re.sub(r'(\d+)\.(\d+)', r'\1_\2', value)
DecimalToUnderscore(v) ==
    [i \in DOMAIN v |-> IF i \in DecimalDots(v, 1, 1) THEN "_" ELSE v[i]]

\* re.sub(r'\s+', '-', value)
SpacesToDash(v) ==
    LET kept == Pick(v, {i \in DOMAIN v : ~(IsSpace(v[i]) /\ i > 1 /\ IsSpace(v[i - 1]))})
    IN  [i \in DOMAIN kept |-> IF IsSpace(kept[i]) THEN "-" ELSE kept[i]]

\* re.sub(r'[^a-z0-9\-_]', '', value)
SlugChar(c) ==
    \/ \E k \in DOMAIN LowerChars : LowerChars[k] = c
    \/ IsDigit(c)
    \/ c \in {"-", "_"}

DropOthers(v) == Pick(v, {i \in DOMAIN v : SlugChar(v[i])})

\* re.sub(r'-{2,}', '-', value)
CollapseDashes(v) == Pick(v, {i \in DOMAIN v : ~(v[i] = "-" /\ i > 1 /\ v[i - 1] = "-")})

\* value.strip('-')
StripDashes(v) ==
    LET inner == {i \in DOMAIN v : v[i] # "-"}
    IN  IF inner = {} THEN <<>>
        ELSE SubSeq(v, CHOOSE a \in inner : \A i \in inner : a <= i,
                       CHOOSE b \in inner : \A i \in inner : i <= b)

\* slugify with the other characters dropped last, after the strip
SlugifyDropLast(value) ==
    DropOthers(StripDashes(CollapseDashes(SpacesToDash(DecimalToUnderscore(
        ReplacePlus(ToLower(NfkdAscii(value))))))))

slugify(value) ==
    StripDashes(CollapseDashes(DropOthers(SpacesToDash(DecimalToUnderscore(
        ReplacePlus(ToLower(NfkdAscii(value))))))))

(***************************************************************************)
(* sheet_parser.extract_prices.  A price is given by its number of         *)
(* hundredths: Cents(c) is the float c/100, which is PyFloat(c/100) when   *)
(* it is whole.                                                            *)
(***************************************************************************)
Cents(c) == IF c % 100 = 0 THEN PyFloat(c \div 100) ELSE <<"cents", c>>

\* the number of hundredths of a float
Hundredths(v) == IF v[1] = "cents" THEN v[2] ELSE 100 * v[2]

\* ([\d,]{4,8})(?!\d) at index k: the length of the longest run of 4 to 8
\* digits and commas that is not followed by a digit, 0 when there is none
GroupLenAt(v, k) ==
    LET fits == {n \in 4..8 :
                    /\ k + n - 1 <= Len(v)
                    /\ \A i \in k..(k + n - 1) : IsDigit(v[i]) \/ v[i] = ","
                    /\ k + n > Len(v) \/ ~IsDigit(v[k + n])}
    IN  IF fits = {} THEN 0 ELSE CHOOSE n \in fits : \A m \in fits : m <= n

\* where the group starts when the pattern is tried at index i: after an
\* optional currency sign and any whitespace
GroupStart(v, i) ==
    LET a == IF v[i] = "peso" THEN i + 1 ELSE i
        rest == {k \in a..Len(v) : ~IsSpace(v[k])}
    IN  IF rest = {} THEN Len(v) + 1 ELSE CHOOSE k \in rest : \A m \in rest : k <= m

\* re.findall(price_pattern, raw_text) from index i on: the groups of the
\* matches, leftmost first, not overlapping
RECURSIVE FindPrices(_, _)
FindPrices(v, i) ==
    IF i > Len(v) THEN <<>>
    ELSE LET k == GroupStart(v, i)
             n == IF k > Len(v) THEN 0 ELSE GroupLenAt(v, k)
         IN  IF n > 0 THEN <<SubSeq(v, k, k + n - 1)>> \o FindPrices(v, k + n)
             ELSE FindPrices(v, i + 1)

\* float(p.replace(",", "")) raises ValueError when nothing is left of the group
AmountRaises(g) == SelectSeq(g, IsDigit) = <<>>

\* float(p.replace(",", "")) of a group with a digit
ParseAmount(g) == DigitsValue(SelectSeq(g, IsDigit))

\* re.search(r"(\d{1,2})%\s*(?:OFF)?", raw_text): the index and length of
\* the leftmost group, <<0, 0>> for no match
DiscountMatch(v) ==
    LET two(i) == i + 2 <= Len(v) /\ IsDigit(v[i]) /\ IsDigit(v[i + 1]) /\ v[i + 2] = "%"
        one(i) == i + 1 <= Len(v) /\ IsDigit(v[i]) /\ v[i + 1] = "%"
        starts == {i \in DOMAIN v : two(i) \/ one(i)}
    IN  IF starts = {} THEN <<0, 0>>
        ELSE LET i == CHOOSE a \in starts : \A b \in starts : a <= b
             IN  <<i, IF two(i) THEN 2 ELSE 1>>

\* float(discount_match.group(1)), in percent
DiscountPercent(v) ==
    DigitsValue(SubSeq(v, DiscountMatch(v)[1],
                       DiscountMatch(v)[1] + DiscountMatch(v)[2] - 1))

\* round(sale_price / (1 - d / 100), 2) in hundredths, for sale_price in
\* units and 0 < d < 100
RegularFromDiscount(sale, d) ==
    (2 * sale * 10000 + (100 - d)) \div (2 * (100 - d))

MinOf(amounts) == CHOOSE x \in {amounts[i] : i \in DOMAIN amounts} :
    \A i \in DOMAIN amounts : x <= amounts[i]

MaxOf(amounts) == CHOOSE x \in {amounts[i] : i \in DOMAIN amounts} :
    \A i \in DOMAIN amounts : amounts[i] <= x

\* the one-amount and no-amount branches of the try block
PricesOfOne(amounts, v) ==
    IF Len(amounts) = 1 /\ DiscountMatch(v)[1] > 0
        THEN [sale_price |-> Cents(100 * amounts[1]),
              regular_price |->
                  IF DiscountPercent(v) > 0 /\ DiscountPercent(v) < 100
                  THEN Cents(RegularFromDiscount(amounts[1], DiscountPercent(v)))
                  ELSE None]
    ELSE IF Len(amounts) = 1
        THEN [sale_price |-> None, regular_price |-> Cents(100 * amounts[1])]
    ELSE [sale_price |-> None, regular_price |-> None]

\* the try block if it took the first and the last amount found
PricesFirstLast(amounts, v) ==
    IF Len(amounts) >= 2
    THEN [sale_price |-> Cents(100 * amounts[1]),
          regular_price |-> Cents(100 * amounts[Len(amounts)])]
    ELSE PricesOfOne(amounts, v)

\* the try block of extract_prices, given the amounts and the text
PricesOf(amounts, v) ==
    IF Len(amounts) >= 2
    THEN [sale_price |-> Cents(100 * MinOf(amounts)),
          regular_price |-> Cents(100 * MaxOf(amounts))]
    ELSE PricesOfOne(amounts, v)

\* extract_prices(raw_text): the except branch when a group does not parse
extract_prices(raw_text) ==
    LET groups == FindPrices(raw_text, 1)
    IN  IF \E i \in DOMAIN groups : AmountRaises(groups[i])
        THEN [sale_price |-> None, regular_price |-> None]
        ELSE PricesOf([i \in DOMAIN groups |-> ParseAmount(groups[i])], raw_text)

(***************************************************************************)
(* sheet_parser.extract_hyperlink_from_cell, clean_product_name,           *)
(* parse_ecommerce_url and convert_to_affiliate_link.  A cell is a record  *)
(* [formattedValue, hyperlink, run_uri]; run_uri is the link of its first  *)
(* text run that has one.  The cell texts are over letters, digits,        *)
(* spaces, the peso sign, "%" and the punctuation of prices, without the   *)
(* brackets, sales words, memory sizes and model keywords that the other   *)
(* patterns of clean_product_name look for.  A URL is a string without a   *)
(* query part.                                                             *)
(***************************************************************************)
\* str.strip()
RECURSIVE StripSpaces(_)
StripSpaces(v) ==
    IF v # <<>> /\ IsSpace(Head(v)) THEN StripSpaces(Tail(v))
    ELSE IF v # <<>> /\ IsSpace(v[Len(v)]) THEN StripSpaces(SubSeq(v, 1, Len(v) - 1))
    ELSE v

\* text.strip(), link: the cell's hyperlink, else the link of a text run
extract_hyperlink_from_cell(cell) ==
    [text |-> StripSpaces(cell.formattedValue),
     link |-> StrOr(cell.hyperlink, cell.run_uri)]

\* stop_pattern.search(raw).start(): the first peso sign or "%", Len + 1
\* when there is none
NoiseStart(raw) ==
    LET S == {i \in DOMAIN raw : raw[i] \in {"peso", "%"}}
    IN  IF S = {} THEN Len(raw) + 1 ELSE CHOOSE i \in S : \A k \in S : i <= k

\* re.sub(r'\s{2,}', ' ', raw)
CollapseSpaces(v) ==
    Pick(v, {i \in DOMAIN v : ~(i > 1 /\ IsSpace(v[i]) /\ IsSpace(v[i - 1]))})

\* stage 1 (cut at the noise) and the final cleanup of clean_product_name
clean_product_name(raw) ==
    StripSpaces(CollapseSpaces(
        SelectSeq(SubSeq(raw, 1, NoiseStart(raw) - 1),
                  LAMBDA c : c \notin {"-", ",", ".", "|", "+"})))

ShopeeUrl1 == "https://shopee.ph/ab-i.9.101"
ShopeeUrl2 == "https://shopee.ph/bb-i.9.102"
LazadaUrl1 == "https://www.lazada.com.ph/products/ba-i101.html"
OtherUrl == "https://example.com/ab"
\* a link with an unclosed bracket: urlparse raises ValueError on it
MalformedUrl == "https://[shopee.ph/bb-i.9.102"

\* urlparse(url) raises
UrlRaises(url) == url = MalformedUrl

\* parse_ecommerce_url(url), for the links above
parse_ecommerce_url(url) ==
    CASE url = ShopeeUrl1 -> [product_id |-> "101", shop_id |-> "9", source |-> "shopee"]
      [] url = ShopeeUrl2 -> [product_id |-> "102", shop_id |-> "9", source |-> "shopee"]
      [] url = LazadaUrl1 -> [product_id |-> "101", shop_id |-> NoneStr, source |-> "lazada"]
      [] OTHER -> [product_id |-> NoneStr, shop_id |-> NoneStr, source |-> NoneStr]

\* convert_to_affiliate_link(url, slug): the link with the tracking
\* parameters of its marketplace ("*" is a generated identifier)
convert_to_affiliate_link(url) ==
    CASE url \in {ShopeeUrl1, ShopeeUrl2, MalformedUrl} -> url \o "?uls_trackid=*"
      [] url = LazadaUrl1 -> url \o "?laz_trackid=*"
      [] OTHER -> url

(***************************************************************************)
(* tasks.import_from_google_sheet_task: the row loop (pure part).  The     *)
(* names and slugs of the records are sequences of characters here.        *)
(***************************************************************************)
\* None where a name is expected
NoName == <<NoneStr>>

\* "N/A"
NotAvailable == <<"n/a", 0>>

\* shopee_id_map.get(key) / lazada_id_map.get(key): the index in the
\* database of the record the map holds under key (of two records with one
\* id the later one), 0 when key is not in the map
IdMapGet(db, field, key) ==
    LET S == {i \in DOMAIN db : db[i][field] \notin {NoneStr, ""} /\ db[i][field] = key}
    IN  IF S = {} THEN 0 ELSE CHOOSE i \in S : \A k \in S : k <= i

\* name_map.get(lname), likewise
NameMapGet(db, lname) ==
    LET S == {i \in DOMAIN db : db[i].name # <<>> /\ ToLower(db[i].name) = lname}
    IN  IF S = {} THEN 0 ELSE CHOOSE i \in S : \A k \in S : k <= i

\* all_product_names
AllProductNames(db) ==
    LET named == SelectSeq(db, LAMBDA prod : prod.name # <<>>)
    IN  [i \in DOMAIN named |-> named[i].name]

\* what fuzz_process.extractOne may return: one of the names, whatever its
\* score is (score_cutoff is 0), nothing when there is no name
Guesses(db) ==
    IF AllProductNames(db) = <<>> THEN {NoName}
    ELSE {AllProductNames(db)[i] : i \in DOMAIN AllProductNames(db)}

\* the row is passed over: no text in the cell, or no link
SkipsCell(cell) ==
    cell.formattedValue = <<>> \/ extract_hyperlink_from_cell(cell).link \in {NoneStr, ""}

\* the row makes the task raise
CellRaises(cell) == ~SkipsCell(cell) /\ UrlRaises(extract_hyperlink_from_cell(cell).link)

\* step 1, match by product id: the index of the record, 0 for no match
Tier1Match(db, ids) ==
    IF ids.product_id \in {NoneStr, ""} THEN 0
    ELSE IF ids.source = "shopee" THEN IdMapGet(db, "shopee_id", ids.product_id)
    ELSE IF ids.source = "lazada" THEN IdMapGet(db, "lazada_id", ids.product_id)
    ELSE 0

\* the match if the name were looked up before the product id
MatchNameFirst(db, ids, cleaned_name) ==
    IF NameMapGet(db, ToLower(cleaned_name)) # 0
    THEN NameMapGet(db, ToLower(cleaned_name))
    ELSE Tier1Match(db, ids)

\* steps 1 and 2: the match by id, else (if not match) the match by name
MatchOf(db, ids, cleaned_name) ==
    IF Tier1Match(db, ids) # 0 THEN Tier1Match(db, ids)
    ELSE NameMapGet(db, ToLower(cleaned_name))

\* the row's status if a best guess counted as a match
StatusGuessMatches(m, guess) ==
    IF m # 0 \/ guess # NoName THEN "MATCHED" ELSE "UNMATCHED"

\* status
StatusOf(m, guess) == IF m # 0 THEN "MATCHED" ELSE "UNMATCHED"

\* product_stage_data for a cell that is not passed over and does not
\* raise; guess is the answer of extractOne
StageRow(db, cell, guess) ==
    LET raw_text == extract_hyperlink_from_cell(cell).text
        url == extract_hyperlink_from_cell(cell).link
        cleaned_name == clean_product_name(raw_text)
        prices == extract_prices(raw_text)
        ids == parse_ecommerce_url(url)
        tier_1_match_success == Tier1Match(db, ids) # 0
        m == MatchOf(db, ids, cleaned_name)
    IN  [slug |-> IF m # 0 THEN db[m].slug ELSE slugify(cleaned_name),
         parsed_name |-> IF tier_1_match_success THEN db[m].name ELSE cleaned_name,
         original_url |-> url,
         affiliate_link |-> convert_to_affiliate_link(url),
         new_sale_price |-> prices.sale_price,
         new_regular_price |-> prices.regular_price,
         button_text |-> CASE ids.source = "shopee" -> "Buy on Shopee"
                           [] ids.source = "lazada" -> "Buy on Lazada"
                           [] OTHER -> NoneStr,
         status |-> StatusOf(m, guess),
         current_price |-> IF m # 0 THEN PyOr(db[m].sale_price, NotAvailable)
                           ELSE NotAvailable,
         nearest_match |-> IF m # 0 THEN NoName ELSE guess,
         shopee_id |-> IF ids.source = "shopee" THEN ids.product_id ELSE NoneStr,
         lazada_id |-> IF ids.source = "lazada" THEN ids.product_id ELSE NoneStr,
         shop_id |-> ids.shop_id,
         matched_db_id |-> IF m # 0 THEN PyInt(db[m].id) ELSE None,
         matched_db_slug |-> IF m # 0 THEN db[m].slug ELSE slugify(cleaned_name)]

(***************************************************************************)
(* main.StagedProduct: the rows as the API returns and accepts them.       *)
(***************************************************************************)
\* StagedProduct(**row).dict(): the fields of the model, action and
\* linked_db_id None when the row has none (rows written by the import)
AsStagedProduct(row) ==
    [f \in DOMAIN row \cup {"action", "linked_db_id"} |->
        IF f \in DOMAIN row THEN row[f]
        ELSE IF f = "action" THEN NoneStr ELSE None]

\* response_model=List[StagedProduct] / staged_products: List[StagedProduct]
AsStagedProducts(rows) == [i \in DOMAIN rows |-> AsStagedProduct(rows[i])]

(***************************************************************************)
(* State.                                                                  *)
(***************************************************************************)
VARIABLES
    mirror,          \* product_database.json: the list of mirror records
    mirrorReadable,  \* the file exists and holds valid JSON
    catalog,         \* the external catalog: product id -> product
    creds,           \* WC_URL, WC_KEY and WC_SECRET are all set
    day,             \* today's date (a day number)
    requests,        \* the calls the API will receive, in order
    nextReq,         \* the index of the next call (job ids are call indices)
    queue,           \* the task queue (Celery)
    jobKey,          \* the status store: job:<id> -> [status, ex]
    auditKey,        \* the status store: audit_log:<id> -> [set, entries, ex]
    auditFile,       \* audit_log.jsonl: the lines appended so far
    pool,            \* the worker processes that consume the queue
    worker,          \* each worker's task and local variables
    hist,            \* per job, for the record: statuses written, posts made
                     \* per chunk, whether a chunk was accepted (status < 400)
                     \* and sent successfully, payloads and chunks cut, mirror
                     \* writes, audit keys set, audit file lines, result,
                     \* the import job whose rows a sync was sent for, with
                     \* the rows as they were sent, and
                     \* the writes of the mirror made before a sync loaded it
    staging,         \* the status store: staging_area:<id> -> [set, rows, at, ex]
    now,             \* the time of the status store, in seconds
    lastGet,         \* the last answer of GET /api/import/staged-data/<id>
    text,            \* sheet_parser: the string given to a parser
    parsed           \* sheet_parser: what the parsers returned for it

importVars == <<staging, now, lastGet>>
parseVars == <<text, parsed>>

vars == <<mirror, mirrorReadable, catalog, creds, day, requests, nextReq, queue,
          jobKey, auditKey, auditFile, pool, worker, hist, importVars, parseVars>>

Workers == {"w1", "w2"}
JobIds == {1, 2, 3}
Outcomes == {"ok", "ok_bad_body", "http_error", "network_error", "unexpected"}
\* what GET products/<id> may end in: the product; an answer with an HTTP
\* error status whose body is the JSON object of the error (the client does
\* not raise on the status); a RequestException; another exception
FetchOutcomes == {"ok", "error_body", "network_error", "unexpected"}

NoKey == [status |-> "absent", ex |-> 0]
NoAudit == [set |-> FALSE, entries |-> <<>>, ex |-> 0]

IdleWorker ==
    [pc |-> "idle", job_id |-> 0, approved |-> <<>>, local_products |-> <<>>,
     payload |-> <<>>, audit_entries |-> <<>>, today |-> 0, row |-> 0,
     chunk |-> 0, attempt |-> 0,
     sent |-> FALSE, failed_chunks_count |-> 0,
     page |-> 0, all_product_ids |-> <<>>, all_products |-> <<>>,
     failed_ids |-> <<>>, index |-> 0,
     product_database |-> <<>>, grid_data |-> <<>>, staged_products |-> <<>>]

NoText == [kind |-> "none", value |-> <<>>]

NotParsed ==
    [step |-> 0, prices |-> [sale_price |-> None, regular_price |-> None],
     once |-> <<>>, twice |-> <<>>]

NoStaging == [set |-> FALSE, rows |-> <<>>, at |-> 0, ex |-> 0]
NoAnswer == [job_id |-> 0, code |-> 0, body |-> <<>>, synced |-> FALSE]

NoHist ==
    [statuses |-> <<>>, posts |-> <<>>, accepted |-> <<>>, succeeded |-> <<>>,
     npayload |-> 0, nchunks |-> 0,
     writes |-> 0, audits |-> 0, file_lines |-> 0, result |-> "none",
     import_job |-> 0, writes_before_load |-> 0, approved |-> <<>>]

(***************************************************************************)
(* Inputs: the catalogs, rows and call sequences the model starts from.    *)
(***************************************************************************)
Product(id, name, sale, regular, history) ==
    [id |-> id, name |-> name, slug |-> name, sale_price |-> sale,
     regular_price |-> regular, external_url |-> "u0",
     button_text |-> "Check Price", meta_shopee_id |-> NoneStr,
     meta_lazada_id |-> NoneStr, meta_shop_id |-> NoneStr,
     meta_price_history |-> history]

NoHistoryMeta == <<"absent", <<>>>>

\* product 1 as the catalog may hold it; product 2 is always the same
Product1Variants ==
    { Product(1, "p1", EmptyStr, PyStr(1), NoHistoryMeta),
      Product(1, "p1", PyStr(1), PyStr(2), NoHistoryMeta),
      Product(1, "p1", EmptyStr, EmptyStr, NoHistoryMeta),
      Product(1, "p1", EmptyStr, PyStr(1), Dumps(<<[date |-> 0, price |-> 1]>>)) }

CatalogWith(p1) ==
    [i \in ProductIds |->
        IF i = 1 THEN p1 ELSE Product(i, "p2", EmptyStr, PyStr(2), NoHistoryMeta)]

PlainCatalog == CatalogWith(Product(1, "p1", EmptyStr, PyStr(1), NoHistoryMeta))

\* the mirror a complete refresh of the catalog writes
MirrorOf(cat) ==
    [k \in 1..Len(SortedIds(DOMAIN cat)) |-> RecordFromProduct(cat[SortedIds(DOMAIN cat)[k]])]

Row(action, matched, linked, sale, regular, shopee, lazada) ==
    [action |-> action, matched_db_id |-> matched, linked_db_id |-> linked,
     parsed_name |-> "sheet name", new_sale_price |-> sale,
     new_regular_price |-> regular, affiliate_link |-> "u1",
     button_text |-> NoneStr, shopee_id |-> shopee, lazada_id |-> lazada,
     shop_id |-> NoneStr]

OptInt(n) == IF n = 0 THEN None ELSE PyInt(n)

\* rows of every action, with ids that are or are not in the mirror (3 is
\* not); m is <<matched_db_id, linked_db_id>>, 0 for None
RouteRows ==
    { Row(a[1], OptInt(a[2]), OptInt(a[3]), None, PyFloat(2), "s1", NoneStr) :
        a \in { <<"approve", 1, 2>>, <<"approve", 3, 1>>, <<"approve", 0, 0>>,
                <<"link", 1, 2>>, <<"link", 2, 3>>, <<"link", 0, 0>>,
                <<"ignore", 1, 2>>, <<NoneStr, 1, 2>> } }

\* rows approved for product 1 with the two prices present, absent or zero
PriceRows ==
    { Row("approve", PyInt(1), None, p[1], p[2], "s1", NoneStr) :
        p \in { <<None, None>>, <<None, PyFloat(1)>>, <<None, PyFloat(2)>>,
                <<PyFloat(1), None>>, <<PyFloat(2), None>>,
                <<PyFloat(1), PyFloat(2)>>, <<PyFloat(1), PyFloat(1)>>,
                <<PyFloat(2), PyFloat(1)>>, <<PyFloat(0), PyFloat(2)>> } }

SyncCall(rows) == [type |-> "sync", rows |-> rows]
RefreshCall == [type |-> "refresh", rows |-> <<>>]

\* the list of length n that repeats base
Repeat(base, n) == [k \in 1..n |-> base[((k - 1) % Len(base)) + 1]]

ChunkBases ==
    { <<Row("approve", PyInt(1), None, None, PyFloat(2), "s1", NoneStr)>>,
      <<Row("link", None, PyInt(2), PyFloat(1), PyFloat(2), NoneStr, "l1"),
        Row("ignore", PyInt(1), None, None, PyFloat(2), "s1", NoneStr)>> }

RECURSIVE SeqsUpTo(_, _)
SeqsUpTo(S, n) ==
    IF n = 0 THEN {<<>>}
    ELSE LET shorter == SeqsUpTo(S, n - 1)
         IN  shorter \cup {Append(q, x) : q \in {t \in shorter : Len(t) = n - 1}, x \in S}

\* the list lengths around the chunk boundaries, and the longest list
ChunkLengths ==
    {n \in 0..MaxRows : n % CHUNK_SIZE \in {0, 1, CHUNK_SIZE - 1}} \cup {MaxRows}

\* one long sync: the chunking scenarios
ChunkScenarios ==
    { <<SyncCall(Repeat(b, n))>> : b \in ChunkBases, n \in ChunkLengths }

\* one short sync of rows of every kind: the routing scenarios
RouteScenarios == { <<SyncCall(rows)>> : rows \in SeqsUpTo(RouteRows, MaxShort) }

OtherPriceRow == Row("approve", PyInt(1), None, None, PyFloat(1), "s1", NoneStr)

PlainRow == Row("approve", PyInt(1), None, None, PyFloat(2), "s1", NoneStr)

\* two runs in succession on one record: the price scenarios
PriceScenarios ==
    UNION { { <<SyncCall(<<r>>), c>> :
                c \in {SyncCall(<<r>>), RefreshCall, SyncCall(<<OtherPriceRow>>)} } :
            r \in PriceRows }
    \cup {<<RefreshCall, RefreshCall>>}

InitCommon ==
    /\ day = 1
    /\ nextReq = 1
    /\ queue = <<>>
    /\ jobKey = [j \in JobIds |-> NoKey]
    /\ auditKey = [j \in JobIds |-> NoAudit]
    /\ auditFile = <<>>
    /\ worker = [w \in Workers |-> IdleWorker]
    /\ hist = [j \in JobIds |-> NoHist]
    /\ staging = [j \in JobIds |-> NoStaging]
    /\ now = 0
    /\ lastGet = NoAnswer

InitChunk ==
    /\ catalog = PlainCatalog
    /\ mirror = MirrorOf(catalog)
    /\ mirrorReadable = TRUE
    /\ creds = TRUE
    /\ requests \in ChunkScenarios

InitRoute ==
    /\ catalog = PlainCatalog
    /\ mirror = MirrorOf(catalog)
    /\ mirrorReadable = TRUE
    /\ creds = TRUE
    /\ requests \in RouteScenarios

InitPrice ==
    /\ catalog \in {CatalogWith(p) : p \in Product1Variants}
    /\ mirror = MirrorOf(catalog)
    /\ mirrorReadable = TRUE
    /\ creds = TRUE
    /\ requests \in PriceScenarios

\* a deployment without credentials, or whose mirror file is missing or corrupt
InitBroken ==
    /\ catalog = PlainCatalog
    /\ mirror = MirrorOf(catalog)
    /\ mirrorReadable \in BOOLEAN
    /\ creds \in BOOLEAN
    /\ ~(mirrorReadable /\ creds)
    /\ requests \in { <<SyncCall(<<PlainRow>>), c>> :
                        c \in {SyncCall(<<PlainRow>>), RefreshCall} }

\* two worker processes, and two syncs of one row each, for different
\* records, both with a new price
InitRace ==
    /\ catalog = PlainCatalog
    /\ mirror = MirrorOf(catalog)
    /\ mirrorReadable = TRUE
    /\ creds = TRUE
    /\ requests = <<SyncCall(<<Row("approve", PyInt(1), None, None, PyFloat(2), "s1", NoneStr)>>),
                    SyncCall(<<Row("approve", PyInt(2), None, None, PyFloat(1), NoneStr, "l2")>>)>>

Init ==
    /\ InitCommon
    /\ text = NoText /\ parsed = NotParsed
    /\ \/ pool = {"w1"} /\ (InitChunk \/ InitRoute \/ InitPrice \/ InitBroken)
       \/ pool = Workers /\ InitRace

(***************************************************************************)
(* Helpers of the actions.                                                 *)
(***************************************************************************)
\* update_job_status(status, message): redis set job:<id> ..., ex=3600
WriteStatus(keys, j, status) ==
    [keys EXCEPT ![j] = [status |-> status, ex |-> JOB_TTL]]

\* the status writes of job j, in order, for the record
LogStatuses(h, j, written) == [h EXCEPT ![j].statuses = @ \o written]

\* whether the response of an attempt has status < 400 (the catalog took it)
Accepted(outcome) == outcome \in {"ok", "ok_bad_body"}

\* an attempt ends in "sent_successfully = True; break" only when post()
\* returned, response.json() parsed and status_code < 400
SentSuccessfully(outcome) == outcome = "ok"

\* FailedChunksAfter without the count of the generic except branch
FailedChunksNetworkOnly(count, attempt, outcome) ==
    IF outcome \in {"http_error", "network_error"} /\ ~(attempt < MAX_API_RETRIES - 1)
    THEN count + 1 ELSE count

\* failed_chunks_count after one attempt: both except branches add 1 on the
\* last attempt, a successful attempt adds nothing
FailedChunksAfter(count, attempt, outcome) ==
    IF ~SentSuccessfully(outcome) /\ ~(attempt < MAX_API_RETRIES - 1)
    THEN count + 1 ELSE count

\* the retry loop is left by break, or when range(MAX_API_RETRIES) is used up
AttemptsOver(attempt, outcome) ==
    SentSuccessfully(outcome) \/ attempt + 1 >= MAX_API_RETRIES

\* PcAfterAttempt with a chunk that used up its attempts ending the chunk loop
PcAbortOnFailedChunk(c, total, attempt, outcome) ==
    IF SentSuccessfully(outcome) THEN (IF c < total THEN "chunk" ELSE "save")
    ELSE IF attempt + 1 >= MAX_API_RETRIES THEN "save" ELSE "post"

\* where the task goes after an attempt: the next attempt, the next chunk,
\* or the save when the last chunk is over
PcAfterAttempt(c, total, attempt, outcome) ==
    IF ~AttemptsOver(attempt, outcome) THEN "post"
    ELSE IF c < total THEN "chunk" ELSE "save"

\* the audit value if it were set with the lifetime of the job-status key
AuditValueJobTtl(entries) == [set |-> TRUE, entries |-> entries, ex |-> JOB_TTL]

\* the value set under audit_log:<id> (line 313)
AuditValue(entries) == [set |-> TRUE, entries |-> entries, ex |-> AUDIT_TTL]

\* the final writes if "complete" were written ahead of the check of the count
FinalWritesCompleteFirst(final) ==
    IF final = "failed" THEN <<"complete", "failed">> ELSE <<"complete">>

\* the final writes if a run with a failed chunk left the status as it was
FinalWritesOnlyComplete(final) ==
    IF final = "failed" THEN <<"processing">> ELSE <<"complete">>

\* the status writes that end a run whose chunks were attempted: a failed run
\* writes "failed" at line 318, raises, and writes "failed" again at line 326
FinalWrites(final) ==
    IF final = "failed" THEN <<"failed", "failed">> ELSE <<"complete">>

\* the mirror file if a record of the file with a longer history were kept
SavedKeepingLonger(local) ==
    [i \in DOMAIN local |->
        IF i \in DOMAIN mirror
           /\ Len(mirror[i].price_history) > Len(local[i].price_history)
        THEN mirror[i] ELSE local[i]]

\* the mirror file if only the records that differ from the file were written
SavedChangedOnly(local) ==
    SelectSeq(local, LAMBDA r : \A i \in DOMAIN mirror : mirror[i] # r)

\* what json.dump(local_products, f) leaves in the mirror file
SavedMirror(local) == local

\* the final status of a run whose chunks were attempted
FinalStatus(failed_chunks_count) ==
    IF failed_chunks_count > 0 THEN "failed" ELSE "complete"

(***************************************************************************)
(* main.py: the API handlers that queue the tasks.                         *)
(***************************************************************************)
\* a call is taken up when a worker is free to run its task at once: a task
\* queued behind a busy worker only waits, and runs as if queued later
WorkerFree == queue = <<>> /\ \E w \in pool : worker[w].pc = "idle"

\* POST /api/import/process-staged-data
ProcessStagedData ==
    /\ nextReq <= Len(requests)
    /\ requests[nextReq].type = "sync"
    /\ WorkerFree
    /\ jobKey' = WriteStatus(jobKey, nextReq, "starting")
    /\ hist' = LogStatuses(hist, nextReq, <<"starting">>)
    /\ queue' = Append(queue, [type |-> "sync", job_id |-> nextReq,
                               rows |-> requests[nextReq].rows])
    /\ nextReq' = nextReq + 1
    /\ UNCHANGED <<mirror, mirrorReadable, catalog, creds, day, requests,
                   auditKey, auditFile, pool, worker>>
    /\ UNCHANGED <<importVars, parseVars>>

\* update_product_database_task.delay(): the API, or the daily beat schedule
TriggerRefresh ==
    /\ nextReq <= Len(requests)
    /\ requests[nextReq].type = "refresh"
    /\ WorkerFree
    /\ queue' = Append(queue, [type |-> "refresh", job_id |-> nextReq, rows |-> <<>>])
    /\ nextReq' = nextReq + 1
    /\ UNCHANGED <<mirror, mirrorReadable, catalog, creds, day, requests, jobKey,
                   auditKey, auditFile, pool, worker, hist>>
    /\ UNCHANGED <<importVars, parseVars>>

\* the clock will be read again: a task is still to come, or a sync has not
\* finished its row loop (the only places that read the date)
ClockWillBeRead ==
    \/ nextReq <= Len(requests)
    \/ queue # <<>>
    \/ \E w \in pool : worker[w].pc \in {"load", "rows"}

\* midnight passes (not followed once nothing reads the date any more)
Tick ==
    /\ day < MaxDay
    /\ ClockWillBeRead
    /\ day' = day + 1
    /\ UNCHANGED <<mirror, mirrorReadable, catalog, creds, requests, nextReq, queue,
                   jobKey, auditKey, auditFile, pool, worker, hist>>
    /\ UNCHANGED <<importVars, parseVars>>

(***************************************************************************)
(* data_tasks.update_woocommerce_products_task, step by step.              *)
(***************************************************************************)
\* lines 174-188: the first status write and the credentials check
SyncStart(w) ==
    /\ w \in pool
    /\ worker[w].pc = "idle"
    /\ queue # <<>>
    /\ Head(queue).type = "sync"
    /\ LET j == Head(queue).job_id
       IN  IF creds
           THEN /\ jobKey' = WriteStatus(jobKey, j, "processing")
                /\ hist' = LogStatuses(hist, j, <<"processing">>)
                /\ worker' = [worker EXCEPT ![w] =
                                [IdleWorker EXCEPT !.pc = "load", !.job_id = j,
                                                   !.approved = Head(queue).rows]]
           ELSE /\ jobKey' = WriteStatus(jobKey, j, "failed")
                /\ hist' = [LogStatuses(hist, j, <<"processing", "failed">>)
                               EXCEPT ![j].result = "returned"]
                /\ worker' = [worker EXCEPT ![w] = IdleWorker]
    /\ queue' = Tail(queue)
    /\ UNCHANGED <<mirror, mirrorReadable, catalog, creds, day, requests, nextReq,
                   auditKey, auditFile, pool>>
    /\ UNCHANGED <<importVars, parseVars>>

\* the number of jobs that have written the mirror file
MirrorWrites == Cardinality({k \in JobIds : hist[k].writes > 0})

\* lines 190-199: load the mirror file; lines 324-327 when that raises
SyncLoad(w) ==
    /\ worker[w].pc = "load"
    /\ LET j == worker[w].job_id
       IN  IF ~mirrorReadable
           THEN /\ jobKey' = WriteStatus(jobKey, j, "failed")
                /\ hist' = [LogStatuses(hist, j, <<"failed">>)
                               EXCEPT ![j].result = "raised"]
                /\ worker' = [worker EXCEPT ![w] = IdleWorker]
           ELSE /\ worker' = [worker EXCEPT ![w] =
                                [@ EXCEPT !.pc = "rows",
                                          !.local_products = mirror,
                                          !.payload = <<>>,
                                          !.audit_entries = <<>>,
                                          !.today = day,
                                          !.row = 1]]
                /\ hist' = [hist EXCEPT ![j].writes_before_load = MirrorWrites]
                /\ UNCHANGED jobKey
    /\ UNCHANGED <<mirror, mirrorReadable, catalog, creds, day, requests, nextReq,
                   queue, auditKey, auditFile, pool>>
    /\ UNCHANGED <<importVars, parseVars>>

\* lines 201-274: the loop body for the next approved row
SyncRow(w) ==
    /\ worker[w].pc = "rows"
    /\ worker[w].row <= Len(worker[w].approved)
    /\ LET st == ProcessRow([local |-> worker[w].local_products,
                             payload |-> worker[w].payload,
                             audit |-> worker[w].audit_entries],
                            worker[w].approved[worker[w].row],
                            worker[w].today, day - 1)
       IN  worker' = [worker EXCEPT ![w] =
                        [@ EXCEPT !.local_products = st.local,
                                  !.payload = st.payload,
                                  !.audit_entries = st.audit,
                                  !.row = @ + 1]]
    /\ UNCHANGED <<mirror, mirrorReadable, catalog, creds, day, requests, nextReq,
                   queue, jobKey, auditKey, auditFile, pool, hist>>
    /\ UNCHANGED <<importVars, parseVars>>

\* lines 276-282: nothing to send, or the payload is cut into chunks
SyncCut(w) ==
    /\ worker[w].pc = "rows"
    /\ worker[w].row > Len(worker[w].approved)
    /\ LET j == worker[w].job_id
           total == Len(Chunks(worker[w].payload))
       IN  IF worker[w].payload = <<>>
           THEN /\ jobKey' = WriteStatus(jobKey, j, "complete")
                /\ hist' = [LogStatuses(hist, j, <<"complete">>)
                               EXCEPT ![j].result = "returned"]
                /\ worker' = [worker EXCEPT ![w] = IdleWorker]
           ELSE /\ jobKey' = jobKey
                /\ hist' = [hist EXCEPT
                              ![j].npayload = Len(worker[w].payload),
                              ![j].nchunks = total,
                              ![j].posts = [c \in 1..total |-> 0],
                              ![j].accepted = [c \in 1..total |-> FALSE],
                              ![j].succeeded = [c \in 1..total |-> FALSE]]
                /\ worker' = [worker EXCEPT ![w] =
                                [@ EXCEPT !.pc = "chunk", !.chunk = 1,
                                          !.failed_chunks_count = 0]]
    /\ UNCHANGED <<mirror, mirrorReadable, catalog, creds, day, requests, nextReq,
                   queue, auditKey, auditFile, pool>>
    /\ UNCHANGED <<importVars, parseVars>>

\* lines 283-287: the head of the chunk loop
SyncBeginChunk(w) ==
    /\ worker[w].pc = "chunk"
    /\ jobKey' = WriteStatus(jobKey, worker[w].job_id, "processing")
    /\ hist' = LogStatuses(hist, worker[w].job_id, <<"processing">>)
    /\ worker' = [worker EXCEPT ![w] =
                    [@ EXCEPT !.pc = "post", !.sent = FALSE, !.attempt = 0]]
    /\ UNCHANGED <<mirror, mirrorReadable, catalog, creds, day, requests, nextReq,
                   queue, auditKey, auditFile, pool>>
    /\ UNCHANGED <<importVars, parseVars>>

\* lines 288-307: one attempt of the retry loop, with the outcome of the call
SyncPost(w, outcome) ==
    /\ worker[w].pc = "post"
    /\ LET j == worker[w].job_id
           c == worker[w].chunk
           a == worker[w].attempt
           total == Len(Chunks(worker[w].payload))
       IN  /\ catalog' = IF Accepted(outcome)
                         THEN CatalogApply(catalog, Chunks(worker[w].payload)[c])
                         ELSE catalog
           /\ hist' = [hist EXCEPT
                         ![j].posts[c] = @ + 1,
                         ![j].accepted[c] = @ \/ Accepted(outcome),
                         ![j].succeeded[c] = @ \/ SentSuccessfully(outcome)]
           /\ worker' = [worker EXCEPT ![w] =
                [@ EXCEPT
                   !.sent = SentSuccessfully(outcome),
                   !.failed_chunks_count = FailedChunksAfter(@, a, outcome),
                   !.attempt = IF AttemptsOver(a, outcome) THEN a ELSE a + 1,
                   !.chunk = IF AttemptsOver(a, outcome) /\ c < total THEN c + 1 ELSE c,
                   !.pc = PcAfterAttempt(c, total, a, outcome)]]
    /\ UNCHANGED <<mirror, mirrorReadable, creds, day, requests, nextReq, queue,
                   jobKey, auditKey, auditFile, pool>>
    /\ UNCHANGED <<importVars, parseVars>>

\* lines 309-310: the mirror file is rewritten from local_products
SyncSave(w) ==
    /\ worker[w].pc = "save"
    /\ mirror' = SavedMirror(worker[w].local_products)
    /\ mirrorReadable' = TRUE
    /\ hist' = [hist EXCEPT ![worker[w].job_id].writes = @ + 1]
    /\ worker' = [worker EXCEPT ![w].pc = "audit"]
    /\ UNCHANGED <<catalog, creds, day, requests, nextReq, queue, jobKey, auditKey,
                   auditFile, pool>>
    /\ UNCHANGED <<importVars, parseVars>>

\* line 313: redis set audit_log:<id> json.dumps(audit_log_entries), ex=86400
SyncAudit(w) ==
    /\ worker[w].pc = "audit"
    /\ auditKey' = [auditKey EXCEPT ![worker[w].job_id] =
                      AuditValue(worker[w].audit_entries)]
    /\ hist' = [hist EXCEPT ![worker[w].job_id].audits = @ + 1]
    /\ worker' = [worker EXCEPT ![w].pc = "final"]
    /\ UNCHANGED <<mirror, mirrorReadable, catalog, creds, day, requests, nextReq,
                   queue, jobKey, auditFile, pool>>
    /\ UNCHANGED <<importVars, parseVars>>

\* lines 316-327: the final status; a failed run writes "failed" at line 318,
\* raises, and the handler at 324-327 writes "failed" again and re-raises
SyncFinish(w) ==
    /\ worker[w].pc = "final"
    /\ LET j == worker[w].job_id
           final == FinalStatus(worker[w].failed_chunks_count)
           written == FinalWrites(final)
       IN  /\ jobKey' = WriteStatus(jobKey, j, written[Len(written)])
           /\ hist' = [LogStatuses(hist, j, written)
                         EXCEPT ![j].result = IF final = "failed" THEN "raised"
                                              ELSE "returned"]
    /\ worker' = [worker EXCEPT ![w] = IdleWorker]
    /\ UNCHANGED <<mirror, mirrorReadable, catalog, creds, day, requests, nextReq,
                   queue, auditKey, auditFile, pool>>
    /\ UNCHANGED <<importVars, parseVars>>

(***************************************************************************)
(* data_tasks.update_product_database_task, step by step.                  *)
(***************************************************************************)
\* lines 74-85, and 160-165 when there are no credentials
RefreshStart(w) ==
    /\ w \in pool
    /\ worker[w].pc = "idle"
    /\ queue # <<>>
    /\ Head(queue).type = "refresh"
    /\ LET j == Head(queue).job_id
       IN  IF creds
           THEN /\ worker' = [worker EXCEPT ![w] =
                                [IdleWorker EXCEPT !.pc = "rlist", !.job_id = j,
                                                   !.page = 1]]
                /\ UNCHANGED <<auditFile, hist>>
           ELSE /\ auditFile' = Append(auditFile, AuditLine("FAILED", 0, 0, <<>>))
                /\ hist' = [hist EXCEPT ![j].result = "raised",
                                        ![j].file_lines = @ + 1]
                /\ worker' = [worker EXCEPT ![w] = IdleWorker]
    /\ queue' = Tail(queue)
    /\ UNCHANGED <<mirror, mirrorReadable, catalog, creds, day, requests, nextReq,
                   jobKey, auditKey, pool>>
    /\ UNCHANGED <<importVars, parseVars>>

\* where the product loop starts, or ends when there is nothing to fetch
AfterListing(wk) ==
    IF wk.all_product_ids = <<>>
    THEN [wk EXCEPT !.pc = "rsave"]
    ELSE [wk EXCEPT !.pc = "rfetch", !.index = 1, !.attempt = 0]

\* lines 86-95: one page of ids; an empty page or an exception ends the loop
RefreshListPage(w, ok) ==
    /\ worker[w].pc = "rlist"
    /\ LET batch == ListPage(catalog, worker[w].page)
       IN  worker' = [worker EXCEPT ![w] =
                IF ok /\ batch # <<>>
                THEN [@ EXCEPT !.all_product_ids = @ \o batch, !.page = @ + 1]
                ELSE AfterListing(@)]
    /\ UNCHANGED <<mirror, mirrorReadable, catalog, creds, day, requests, nextReq,
                   queue, jobKey, auditKey, auditFile, pool, hist>>
    /\ UNCHANGED <<importVars, parseVars>>

\* the product loop moves on to the next id, or to the save
NextProduct(wk) ==
    IF wk.index < Len(wk.all_product_ids)
    THEN [wk EXCEPT !.index = @ + 1, !.attempt = 0]
    ELSE [wk EXCEPT !.pc = "rsave"]

\* lines 108-150: one attempt to fetch one product
RefreshFetch(w, outcome) ==
    /\ worker[w].pc = "rfetch"
    /\ LET id == worker[w].all_product_ids[worker[w].index]
           a == worker[w].attempt
       IN  worker' = [worker EXCEPT ![w] =
                IF outcome = "ok"
                THEN NextProduct([@ EXCEPT !.all_products =
                                      Append(@, RecordFromProduct(catalog[id]))])
                ELSE IF outcome = "error_body"
                THEN NextProduct([@ EXCEPT !.all_products =
                                      Append(@, RecordFromError)])
                ELSE IF outcome = "network_error" /\ a + 1 < MAX_SINGLE_PRODUCT_RETRIES
                THEN [@ EXCEPT !.attempt = a + 1]
                ELSE NextProduct([@ EXCEPT !.failed_ids = Append(@, id)])]
    /\ UNCHANGED <<mirror, mirrorReadable, catalog, creds, day, requests, nextReq,
                   queue, jobKey, auditKey, auditFile, pool, hist>>
    /\ UNCHANGED <<importVars, parseVars>>

\* lines 152-158: the mirror file is rewritten from all_products
RefreshSave(w) ==
    /\ worker[w].pc = "rsave"
    /\ mirror' = worker[w].all_products
    /\ mirrorReadable' = TRUE
    /\ auditFile' = Append(auditFile,
                           AuditLine("SUCCESS", Len(worker[w].all_product_ids),
                                     Len(worker[w].all_products), worker[w].failed_ids))
    /\ hist' = [hist EXCEPT ![worker[w].job_id].writes = @ + 1,
                            ![worker[w].job_id].file_lines = @ + 1,
                            ![worker[w].job_id].result = "returned"]
    /\ worker' = [worker EXCEPT ![w] = IdleWorker]
    /\ UNCHANGED <<catalog, creds, day, requests, nextReq, queue, jobKey, auditKey,
                   pool>>
    /\ UNCHANGED <<importVars, parseVars>>

(***************************************************************************)
(* The specification.                                                      *)
(***************************************************************************)
Next ==
    \/ ProcessStagedData
    \/ TriggerRefresh
    \/ Tick
    \/ \E w \in Workers : SyncStart(w)
    \/ \E w \in Workers : SyncLoad(w)
    \/ \E w \in Workers : SyncRow(w)
    \/ \E w \in Workers : SyncCut(w)
    \/ \E w \in Workers : SyncBeginChunk(w)
    \/ \E w \in Workers, o \in Outcomes : SyncPost(w, o)
    \/ \E w \in Workers : SyncSave(w)
    \/ \E w \in Workers : SyncAudit(w)
    \/ \E w \in Workers : SyncFinish(w)
    \/ \E w \in Workers : RefreshStart(w)
    \/ \E w \in Workers, ok \in BOOLEAN : RefreshListPage(w, ok)
    \/ \E w \in Workers, o \in FetchOutcomes : RefreshFetch(w, o)
    \/ \E w \in Workers : RefreshSave(w)

Spec == Init /\ [][Next]_vars

(***************************************************************************)
(* The same program with the worker process going on: a task that has      *)
(* started takes its next step, every call to the status store, the file   *)
(* system or the external catalog returning or raising in the end.         *)
(***************************************************************************)
\* the steps of a sync run on worker w after its start
SyncRunStep(w) ==
    \/ SyncLoad(w)
    \/ SyncRow(w)
    \/ SyncCut(w)
    \/ SyncBeginChunk(w)
    \/ \E o \in Outcomes : SyncPost(w, o)
    \/ SyncSave(w)
    \/ SyncAudit(w)
    \/ SyncFinish(w)

\* one sync of up to three chunks, with or without the credentials and a
\* readable mirror
LiveInit ==
    /\ InitCommon
    /\ text = NoText /\ parsed = NotParsed
    /\ pool = {"w1"}
    /\ catalog = PlainCatalog
    /\ mirror = MirrorOf(catalog)
    /\ mirrorReadable \in BOOLEAN
    /\ creds \in BOOLEAN
    /\ requests \in ChunkScenarios

LiveNext ==
    \/ ProcessStagedData
    \/ \E w \in Workers : SyncStart(w)
    \/ \E w \in Workers : SyncLoad(w)
    \/ \E w \in Workers : SyncRow(w)
    \/ \E w \in Workers : SyncCut(w)
    \/ \E w \in Workers : SyncBeginChunk(w)
    \/ \E w \in Workers, o \in Outcomes : SyncPost(w, o)
    \/ \E w \in Workers : SyncSave(w)
    \/ \E w \in Workers : SyncAudit(w)
    \/ \E w \in Workers : SyncFinish(w)

LiveSpec == LiveInit /\ [][LiveNext]_vars /\ \A w \in Workers : WF_vars(SyncRunStep(w))

(***************************************************************************)
(* The parsers of sheet_parser, applied to the texts of a sheet cell.      *)
(***************************************************************************)
\* the pieces a cell text is made of: prices with the currency sign,
\* numbers that are too short, discounts, a number that is both an amount
\* and a discount, commas alone, and other text
PriceTokens ==
    { <<"peso", "1", "0", "0", "0">>,
      <<"peso", " ", "2", ",", "5", "0", "0">>,
      <<" ", "9", "9", "9">>,
      <<" ", "2", "5", "%">>,
      <<" ", "0", "%">>,
      <<" ", "1", "2", "5", "0", "%">>,
      <<" ", ",", ",", ",", ",">>,
      <<"x">>,
      <<" ", "-", "5", "%", " ", "O", "F", "F">> }

PriceTexts == {Flatten(ts) : ts \in SeqsUpTo(PriceTokens, MaxTokens)}

SlugAlphabet == {"a", "B", "1", ".", "+", " ", "-", "_", "!", "e_acute"}

SlugTexts == SeqsUpTo(SlugAlphabet, MaxSlugLen)

\* the state of the tasks while a parser is looked at alone
TasksAtRest ==
    /\ InitCommon
    /\ pool = {"w1"}
    /\ catalog = PlainCatalog
    /\ mirror = MirrorOf(catalog)
    /\ mirrorReadable = TRUE
    /\ creds = TRUE
    /\ requests = <<>>

ParseInit ==
    /\ TasksAtRest
    /\ \/ text \in {[kind |-> "prices", value |-> v] : v \in PriceTexts}
       \/ text \in {[kind |-> "slug", value |-> v] : v \in SlugTexts}
    /\ parsed = NotParsed

\* new_sale_price, new_regular_price = extract_prices(raw_text)
ExtractPrices ==
    /\ text.kind = "prices" /\ parsed.step = 0
    /\ parsed' = [parsed EXCEPT !.step = 1, !.prices = extract_prices(text.value)]
    /\ UNCHANGED <<mirror, mirrorReadable, catalog, creds, day, requests, nextReq,
                   queue, jobKey, auditKey, auditFile, pool, worker, hist,
                   importVars, text>>

\* slug = slugify(cleaned_name)
Slugify ==
    /\ text.kind = "slug" /\ parsed.step = 0
    /\ parsed' = [parsed EXCEPT !.step = 1, !.once = slugify(text.value)]
    /\ UNCHANGED <<mirror, mirrorReadable, catalog, creds, day, requests, nextReq,
                   queue, jobKey, auditKey, auditFile, pool, worker, hist,
                   importVars, text>>

\* slugify applied to a slug
SlugifyAgain ==
    /\ text.kind = "slug" /\ parsed.step = 1
    /\ parsed' = [parsed EXCEPT !.step = 2, !.twice = slugify(parsed.once)]
    /\ UNCHANGED <<mirror, mirrorReadable, catalog, creds, day, requests, nextReq,
                   queue, jobKey, auditKey, auditFile, pool, worker, hist,
                   importVars, text>>

ParseNext == ExtractPrices \/ Slugify \/ SlugifyAgain

ParseSpec == ParseInit /\ [][ParseNext]_vars

(***************************************************************************)
(* The sheet import: main.import_from_google_sheet, the task               *)
(* tasks.import_from_google_sheet_task, the staging store handlers         *)
(* main.get_staged_data and main.save_staged_data, and the sync of the     *)
(* rows that were staged.                                                  *)
(***************************************************************************)
ImportProduct1 ==
    [Product(1, <<"A", "b">>, EmptyStr, PyStr(1000), NoHistoryMeta)
        EXCEPT !.slug = <<"a", "b">>, !.meta_shopee_id = "101"]

ImportProduct2 ==
    [Product(2, <<"B", "a">>, PyStr(1000), PyStr(2500), NoHistoryMeta)
        EXCEPT !.slug = <<"b", "a", "-", "2">>, !.meta_lazada_id = "101"]

ImportCatalog == [i \in ProductIds |-> IF i = 1 THEN ImportProduct1 ELSE ImportProduct2]

Cell(value, link) == [formattedValue |-> value, hyperlink |-> link, run_uri |-> NoneStr]

\* the cells of column A: the id and the name of record 1; the id of record
\* 1 with the name of record 2; the name of record 1 in lower case on an
\* unknown site; an unknown id and name, with a sale; the Lazada id of
\* record 2; a malformed link; an empty cell; a cell without a link; the
\* name of record 2 with punctuation, linked in a text run; the name of
\* record 2 with a Shopee id
GridCells ==
    { Cell(<<"A", "b", " ", "peso", "1", "0", "0", "0">>, ShopeeUrl1),
      Cell(<<"B", "a", " ", "peso", "1", "0", "0", "0">>, ShopeeUrl1),
      Cell(<<"a", "b">>, OtherUrl),
      Cell(<<"B", "b", " ", "peso", " ", "2", ",", "5", "0", "0", " ", "2", "5", "%">>,
           ShopeeUrl2),
      Cell(<<"B", "a">>, LazadaUrl1),
      Cell(<<"B", "b">>, MalformedUrl),
      Cell(<<>>, ShopeeUrl1),
      Cell(<<"a", "b">>, NoneStr),
      Cell(<<"B", "a">>, ShopeeUrl2),
      [formattedValue |-> <<" ", "B", "-", "a", " ", " ">>, hyperlink |-> NoneStr,
       run_uri |-> OtherUrl] }

\* sheet_ok: the sheet URL holds a spreadsheet id and a gid, and the sheet
\* is there
ImportCall(sheet_ok, grid) == [type |-> "import", rows |-> grid, sheet_ok |-> sheet_ok]

\* the user sends the rows last read from the staging store to the sync
ApproveCall == [type |-> "approve", rows |-> <<>>]

\* the cells of the rows after the first: the first cell above, which
\* matches, and the cell with the malformed link
FollowCells ==
    { Cell(<<"A", "b", " ", "peso", "1", "0", "0", "0">>, ShopeeUrl1),
      Cell(<<"B", "b">>, MalformedUrl) }

\* the sheets: any cell in the first row, then rows of FollowCells
Grids ==
    { g \in SeqsUpTo(GridCells, MaxGrid) :
        \A i \in DOMAIN g : i > 1 => g[i] \in FollowCells }

\* a sheet of one row that is imported and synced, and a later sheet with
\* the same link under another name: the Lazada id of record 2, and a
\* Shopee id that no record has
RoundTrips ==
    { <<ImportCall(TRUE, <<Cell(<<"B", "a">>, link)>>), ApproveCall,
        ImportCall(TRUE, <<Cell(<<"A", "a">>, link)>>)>> :
        link \in {LazadaUrl1, ShopeeUrl2} }

ImportScenarios ==
    { <<ImportCall(TRUE, g), ApproveCall>> : g \in Grids }
    \cup { <<ImportCall(FALSE, <<>>), ApproveCall>> }
    \cup RoundTrips

ImportInit ==
    /\ InitCommon
    /\ pool = {"w1"}
    /\ text = NoText /\ parsed = NotParsed
    /\ catalog = ImportCatalog
    /\ \/ mirror = MirrorOf(catalog) /\ mirrorReadable \in BOOLEAN
       \/ mirror = <<>> /\ mirrorReadable = TRUE
    /\ creds = TRUE
    /\ requests \in ImportScenarios

\* the database if the content of the file were taken whatever the load did
LoadedDatabaseAnyway(readable, file) == file

\* lines 1308-1315: product_database after the load of the mirror file,
\* which leaves it [] when the file cannot be opened or parsed
LoadedDatabase(readable, file) == IF readable THEN file ELSE <<>>

\* redis_client.set(job_key, ...) without ex: the key does not expire
WriteStatusForever(keys, j, status) ==
    [keys EXCEPT ![j] = [status |-> status, ex |-> 0]]

\* POST /api/import/google-sheet
ImportFromGoogleSheet ==
    /\ nextReq <= Len(requests)
    /\ requests[nextReq].type = "import"
    /\ WorkerFree
    /\ jobKey' = WriteStatus(jobKey, nextReq, "starting")
    /\ hist' = LogStatuses(hist, nextReq, <<"starting">>)
    /\ queue' = Append(queue, [type |-> "import", job_id |-> nextReq,
                               rows |-> requests[nextReq].rows,
                               sheet_ok |-> requests[nextReq].sheet_ok])
    /\ nextReq' = nextReq + 1
    /\ UNCHANGED <<mirror, mirrorReadable, catalog, creds, day, requests,
                   auditKey, auditFile, pool, worker, importVars, parseVars>>

\* lines 1301-1350: the status write, the load of the mirror file (an
\* unreadable file is logged and leaves the database empty), the checks of
\* the sheet URL and the fetch of the grid; lines 1470-1473 when a check
\* raises
ImportStart(w) ==
    /\ w \in pool
    /\ worker[w].pc = "idle"
    /\ queue # <<>>
    /\ Head(queue).type = "import"
    /\ LET j == Head(queue).job_id
       IN  IF Head(queue).sheet_ok
           THEN /\ jobKey' = WriteStatusForever(jobKey, j, "processing")
                /\ hist' = LogStatuses(hist, j, <<"processing">>)
                /\ worker' = [worker EXCEPT ![w] =
                                [IdleWorker EXCEPT
                                    !.pc = "import_rows", !.job_id = j,
                                    !.product_database =
                                        LoadedDatabase(mirrorReadable, mirror),
                                    !.grid_data = Head(queue).rows,
                                    !.row = 1]]
           ELSE /\ jobKey' = WriteStatusForever(jobKey, j, "failed")
                /\ hist' = [LogStatuses(hist, j, <<"processing", "failed">>)
                               EXCEPT ![j].result = "raised"]
                /\ worker' = [worker EXCEPT ![w] = IdleWorker]
    /\ queue' = Tail(queue)
    /\ UNCHANGED <<mirror, mirrorReadable, catalog, creds, day, requests, nextReq,
                   auditKey, auditFile, pool, importVars, parseVars>>

\* lines 1354-1443: the loop body for the next row of the grid; nothing in
\* the loop catches what a row raises, so lines 1470-1473 end the task
ImportRow(w) ==
    /\ worker[w].pc = "import_rows"
    /\ worker[w].row <= Len(worker[w].grid_data)
    /\ LET j == worker[w].job_id
           cell == worker[w].grid_data[worker[w].row]
       IN  IF SkipsCell(cell)
           THEN /\ worker' = [worker EXCEPT ![w].row = @ + 1]
                /\ UNCHANGED <<jobKey, hist>>
           ELSE IF CellRaises(cell)
           THEN /\ jobKey' = WriteStatusForever(jobKey, j, "failed")
                /\ hist' = [LogStatuses(hist, j, <<"failed">>)
                               EXCEPT ![j].result = "raised"]
                /\ worker' = [worker EXCEPT ![w] = IdleWorker]
           ELSE /\ \E guess \in Guesses(worker[w].product_database) :
                     worker' = [worker EXCEPT ![w] =
                        [@ EXCEPT !.staged_products =
                                      Append(@, StageRow(worker[w].product_database,
                                                         cell, guess)),
                                  !.row = @ + 1]]
                /\ UNCHANGED <<jobKey, hist>>
    /\ UNCHANGED <<mirror, mirrorReadable, catalog, creds, day, requests, nextReq,
                   queue, auditKey, auditFile, pool, importVars, parseVars>>

\* the value if the key were set without a lifetime
StagedForever(rows, t) == [set |-> TRUE, rows |-> rows, at |-> t, ex |-> 0]

\* the value set under staging_area:<id>, at time t
Staged(rows, t) == [set |-> TRUE, rows |-> rows, at |-> t, ex |-> STAGING_TTL]

\* the key staging_area:<j> is there: set, and its lifetime has not elapsed
Readable(j) ==
    /\ staging[j].set
    /\ staging[j].ex = 0 \/ now < staging[j].at + staging[j].ex

\* lines 1464-1467: the rows are staged and the job is complete
ImportStage(w) ==
    /\ worker[w].pc = "import_rows"
    /\ worker[w].row > Len(worker[w].grid_data)
    /\ LET j == worker[w].job_id
       IN  /\ staging' = [staging EXCEPT ![j] = Staged(worker[w].staged_products, now)]
           /\ jobKey' = WriteStatus(jobKey, j, "complete")
           /\ hist' = [LogStatuses(hist, j, <<"complete">>)
                          EXCEPT ![j].result = "returned"]
    /\ worker' = [worker EXCEPT ![w] = IdleWorker]
    /\ UNCHANGED <<mirror, mirrorReadable, catalog, creds, day, requests, nextReq,
                   queue, auditKey, auditFile, pool, now, lastGet, parseVars>>

\* a sync sent for the rows of import job j has run
SyncedFrom(j) == \E s \in JobIds : hist[s].import_job = j /\ hist[s].result # "none"

\* no task is queued or running: the calls of the user and the passing
\* of time are followed between the tasks, which take no time on the scale
\* of the lifetimes of the keys
AtRest == queue = <<>> /\ \A w \in pool : worker[w].pc = "idle"

\* GET /api/import/staged-data/{job_id}
GetStagedData(j) ==
    /\ AtRest
    /\ lastGet' = IF Readable(j)
                  THEN [job_id |-> j, code |-> 200,
                        body |-> AsStagedProducts(staging[j].rows),
                        synced |-> SyncedFrom(j)]
                  ELSE [job_id |-> j, code |-> 404, body |-> <<>>,
                        synced |-> SyncedFrom(j)]
    /\ UNCHANGED <<mirror, mirrorReadable, catalog, creds, day, requests, nextReq,
                   queue, jobKey, auditKey, auditFile, pool, worker, hist,
                   staging, now, parseVars>>

\* what the user may send back after reading rows: the rows as read, or
\* with the first row marked
Edits(body) ==
    {body} \cup (IF body = <<>> THEN {} ELSE {[body EXCEPT ![1].action = "ignore"]})

\* PUT /api/import/staged-data/{job_id}, with rows read earlier
SaveStagedData(j) ==
    /\ AtRest
    /\ lastGet.code = 200 /\ lastGet.job_id = j
    /\ \E rows \in Edits(lastGet.body) :
         staging' = [staging EXCEPT ![j] = Staged(AsStagedProducts(rows), now)]
    /\ UNCHANGED <<mirror, mirrorReadable, catalog, creds, day, requests, nextReq,
                   queue, jobKey, auditKey, auditFile, pool, worker, hist,
                   now, lastGet, parseVars>>

\* time passes in the status store
TimePasses ==
    /\ now < MaxSteps * TimeStep
    /\ AtRest
    /\ now' = now + TimeStep
    /\ UNCHANGED <<mirror, mirrorReadable, catalog, creds, day, requests, nextReq,
                   queue, jobKey, auditKey, auditFile, pool, worker, hist,
                   staging, lastGet, parseVars>>

\* the user's decisions: matched rows are approved, the others ignored
Decide(body) ==
    [i \in DOMAIN body |->
        [body[i] EXCEPT !.action =
            IF body[i].status = "MATCHED" THEN "approve" ELSE "ignore"]]

\* the decisions with the first row linked to record k by the user
LinkFirst(body, k) ==
    [Decide(body) EXCEPT ![1].action = "link", ![1].linked_db_id = PyInt(k)]

\* what the user may send for the rows read
Decisions(body) ==
    {Decide(body)}
    \cup (IF body = <<>> THEN {} ELSE {LinkFirst(body, k) : k \in ProductIds})

\* POST /api/import/process-staged-data with payload.job_id the import job
\* and payload.approved_products the rows last read, with the decisions
ProcessStagedRows ==
    /\ nextReq <= Len(requests)
    /\ requests[nextReq].type = "approve"
    /\ WorkerFree
    /\ lastGet.code = 200
    /\ jobKey' = WriteStatus(jobKey, nextReq, "starting")
    /\ \E rows \in Decisions(lastGet.body) :
          /\ hist' = [LogStatuses(hist, nextReq, <<"starting">>)
                         EXCEPT ![nextReq].import_job = lastGet.job_id,
                                ![nextReq].approved = rows]
          /\ queue' = Append(queue, [type |-> "sync", job_id |-> nextReq,
                                     rows |-> rows])
    /\ nextReq' = nextReq + 1
    /\ UNCHANGED <<mirror, mirrorReadable, catalog, creds, day, requests,
                   auditKey, auditFile, pool, worker, importVars, parseVars>>

ImportNext ==
    \/ ImportFromGoogleSheet
    \/ \E w \in Workers : ImportStart(w)
    \/ \E w \in Workers : ImportRow(w)
    \/ \E w \in Workers : ImportStage(w)
    \/ \E j \in JobIds : GetStagedData(j)
    \/ \E j \in JobIds : SaveStagedData(j)
    \/ TimePasses
    \/ ProcessStagedRows
    \/ \E w \in Workers : SyncStart(w)
    \/ \E w \in Workers : SyncLoad(w)
    \/ \E w \in Workers : SyncRow(w)
    \/ \E w \in Workers : SyncCut(w)
    \/ \E w \in Workers : SyncBeginChunk(w)
    \/ \E w \in Workers, o \in Outcomes : SyncPost(w, o)
    \/ \E w \in Workers : SyncSave(w)
    \/ \E w \in Workers : SyncAudit(w)
    \/ \E w \in Workers : SyncFinish(w)

ImportSpec == ImportInit /\ [][ImportNext]_vars

(***************************************************************************)
(* Properties of the sync run.                                             *)
(***************************************************************************)
SyncJob(j) == j <= Len(requests) /\ requests[j].type = "sync"

\* the run of job j is over: the task returned or raised
Finished(j) == hist[j].result # "none"

\* the run of job j cut its payload into chunks
Chunked(j) == hist[j].nchunks > 0

ChunksOf(j) == 1..hist[j].nchunks

\* chunk c of job j used up its attempts without one being sent successfully
ChunkFailed(j, c) ==
    hist[j].posts[c] = MAX_API_RETRIES /\ ~hist[j].succeeded[c]

\* C1: for every run that submits at least one chunk, the final job status is
\* "complete" exactly when no chunk failed all its attempts; when a chunk
\* failed the final status is "failed" and the task raises; and the final
\* status is written only after the mirror file has been written.
C1_FinalStatusReflectsChunks ==
    \A j \in JobIds :
        (SyncJob(j) /\ Chunked(j)) =>
            /\ Finished(j) =>
                 /\ jobKey[j].status \in {"complete", "failed"}
                 /\ jobKey[j].status = "complete" <=>
                        \A c \in ChunksOf(j) : ~ChunkFailed(j, c)
                 /\ (\E c \in ChunksOf(j) : ChunkFailed(j, c)) =>
                        jobKey[j].status = "failed" /\ hist[j].result = "raised"
                 /\ jobKey[j].status = "complete" => hist[j].result = "returned"
            /\ (Finished(j) \/ jobKey[j].status \in {"complete", "failed"}) =>
                 hist[j].writes = 1

\* a finished run of three chunks, one of which failed all its attempts while
\* the two others were sent
C1_Witness ==
    \E j \in JobIds :
        /\ SyncJob(j) /\ Finished(j) /\ hist[j].nchunks = 3
        /\ ChunkFailed(j, 2) /\ hist[j].succeeded[1] /\ hist[j].succeeded[3]
        /\ ~hist[j].accepted[2]
        /\ jobKey[j].status = "failed" /\ hist[j].result = "raised"
        /\ hist[j].writes = 1

\* C2: every chunk of the partition is submitted at least once, in list
\* order, whatever the outcome of the earlier chunks: a chunk is submitted
\* only when every earlier chunk has been submitted and no later one has, and
\* a run that is past its chunk loop has submitted every chunk.
C2_EveryChunkSubmittedInOrder ==
    /\ [](\A j \in JobIds : \A c \in ChunksOf(j) :
            /\ hist[j].posts[c] > 0 =>
                 \A b \in 1..(c - 1) : hist[j].posts[b] > 0
            /\ (Finished(j) \/ hist[j].writes > 0) => hist[j].posts[c] >= 1)
    /\ [][\A j \in JobIds : \A c \in ChunksOf(j) :
            (c \in DOMAIN hist'[j].posts /\ hist'[j].posts[c] > hist[j].posts[c]) =>
                \A b \in ChunksOf(j) : b > c => hist[j].posts[b] = 0]_vars

\* a finished run whose first chunk failed all its attempts and whose second
\* and third chunks were submitted all the same
C2_Witness ==
    \E j \in JobIds :
        /\ SyncJob(j) /\ Finished(j) /\ hist[j].nchunks = 3
        /\ ChunkFailed(j, 1)
        /\ hist[j].posts[2] >= 1 /\ hist[j].posts[3] >= 1

\* the worker that runs job j, while the run is in or past its chunk loop
InChunkPhase(w) == worker[w].pc \in {"chunk", "post", "save", "audit", "final"}

\* C3: no chunk is submitted more than 3 times; a chunk is never resubmitted
\* after a submission that was answered with a status below 400; a chunk is
\* marked failed only after 3 failed submissions, and each such chunk adds
\* exactly 1 to the failed-chunk count.
C3_BoundedRetriesNoResubmit ==
    /\ [](/\ \A j \in JobIds : \A c \in ChunksOf(j) :
                hist[j].posts[c] <= MAX_API_RETRIES
          /\ \A w \in Workers :
                InChunkPhase(w) =>
                    worker[w].failed_chunks_count =
                        Cardinality({c \in ChunksOf(worker[w].job_id) :
                                        ChunkFailed(worker[w].job_id, c)}))
    /\ [][\A j \in JobIds : \A c \in ChunksOf(j) :
            (c \in DOMAIN hist'[j].posts /\ hist[j].accepted[c]) =>
                hist'[j].posts[c] = hist[j].posts[c]]_vars

\* C4 as claimed, on the runs that end with status "complete": in each sync
\* run the mirror is written back exactly once (after every chunk has been
\* attempted).
C4_EveryRunWritesMirrorOnce ==
    \A j \in JobIds :
        (SyncJob(j) /\ Finished(j) /\ jobKey[j].status = "complete") =>
            /\ hist[j].writes = 1
            /\ \A c \in ChunksOf(j) : hist[j].posts[c] >= 1

\* the step in which worker w rewrites the mirror file
SavesMirror(w) == worker[w].pc = "save" /\ worker'[w].pc = "audit"

\* C4: each sync run that submits chunks writes the entire in-memory mirror
\* (all records, not just the changed ones) back to the mirror file exactly
\* once, after every chunk has been attempted and with no attempt after it; a
\* run that ends before its chunk loop (no resolved row, no credentials,
\* unreadable mirror) does not write the mirror file.
C4_ChunkedRunWritesWholeMirrorOnce ==
    /\ [](\A j \in JobIds :
            SyncJob(j) =>
                /\ hist[j].writes <= 1
                /\ hist[j].writes = 1 =>
                     Chunked(j) /\ \A c \in ChunksOf(j) : hist[j].posts[c] >= 1
                /\ Finished(j) => (hist[j].writes = 1 <=> Chunked(j)))
    /\ [][/\ \A w \in Workers :
                SavesMirror(w) =>
                    /\ mirror' = worker[w].local_products
                    /\ Len(mirror') = Len(mirror)
          /\ \A j \in JobIds :
                (SyncJob(j) /\ hist[j].writes = 1) => hist'[j].posts = hist[j].posts]_vars

\* a finished run of three chunks, one failed, that wrote a mirror of two
\* records of which it changed only one
C4_Witness ==
    \E j \in JobIds :
        /\ SyncJob(j) /\ Finished(j) /\ hist[j].nchunks = 3
        /\ \E c \in ChunksOf(j) : ChunkFailed(j, c)
        /\ hist[j].writes = 1
        /\ Len(mirror) = 2
        /\ mirror[1] # MirrorOf(PlainCatalog)[1]
        /\ mirror[2] = MirrorOf(PlainCatalog)[2]

\* sync was called twice in succession with the same approved rows, and the
\* first run is over and saved the mirror
SecondRunOfSameRows ==
    /\ Len(requests) = 2
    /\ SyncJob(1) /\ SyncJob(2)
    /\ requests[1].rows = requests[2].rows /\ requests[1].rows # <<>>
    /\ Finished(1) /\ hist[1].writes = 1

\* C5: if sync is run twice in succession with the same approved row and the
\* first run saved the mirror, no step of the second run changes the length of
\* a record's price_history in the mirror file: the history is as long after
\* the second run as after the first, whichever of new_sale_price and
\* new_regular_price are present.
C5_SecondRunAppendsNothing ==
    [][SecondRunOfSameRows =>
          /\ Len(mirror') = Len(mirror)
          /\ \A i \in DOMAIN mirror :
                /\ mirror'[i].id = mirror[i].id
                /\ Len(mirror'[i].price_history) = Len(mirror[i].price_history)]_vars

\* both runs are over and both saved the mirror; the first run appended to
\* the history of record 1 (a backfilled entry and the new price), the row
\* carried both prices, and the second run started on a later day
C5_Witness ==
    /\ SecondRunOfSameRows
    /\ Finished(2) /\ hist[2].writes = 1
    /\ Truthy(requests[1].rows[1].new_sale_price)
    /\ Truthy(requests[1].rows[1].new_regular_price)
    /\ Len(mirror[1].price_history) = 2
    /\ mirror[1].price_history[2].date = 1
    /\ day = 2

\* the entries of history h are in increasing date order
DatesInOrder(h) == \A a, b \in DOMAIN h : a < b => h[a].date <= h[b].date

\* C6: across sync runs and catalog refresh runs, runs with a failed chunk
\* included, each mirror record's price_history is append-only: after every
\* operation a record that is still in the mirror has the history it had
\* before as a prefix of its history, and the entries are in increasing date
\* order.
C6_PriceHistoryAppendOnly ==
    /\ [](\A i \in DOMAIN mirror : DatesInOrder(mirror[i].price_history))
    /\ [][\A i \in DOMAIN mirror : \A k \in DOMAIN mirror' :
            mirror'[k].id = mirror[i].id =>
                IsPrefix(mirror[i].price_history, mirror'[k].price_history)]_vars

Terminal == {"complete", "failed"}

\* C8: the status values written to a sync job's key follow starting ->
\* processing -> {complete | failed}: "starting" is written once, first, by
\* the API before the task is queued; then one or more "processing"; then a
\* terminal value; once a terminal value is written the job writes neither
\* "processing" nor the other terminal value; the key holds the last value
\* written, and a finished run has written a terminal value.
C8_StatusStateMachine ==
    /\ \A j \in JobIds :
         SyncJob(j) =>
            LET s == hist[j].statuses
            IN  /\ \A i \in DOMAIN s :
                     /\ s[i] \in {"starting", "processing"} \cup Terminal
                     /\ s[i] = "starting" <=> i = 1
                     /\ s[i] = "processing" => s[i - 1] \in {"starting", "processing"}
                     /\ s[i] \in Terminal => s[i - 1] \in {"processing", s[i]}
                /\ s # <<>> => jobKey[j].status = s[Len(s)]
                /\ s = <<>> => jobKey[j].status = "absent"
                /\ Finished(j) => s[Len(s)] \in Terminal
    /\ \A k \in DOMAIN queue :
         queue[k].type = "sync" => hist[queue[k].job_id].statuses = <<"starting">>
    /\ \A w \in Workers :
         worker[w].pc \in {"load", "rows", "chunk", "post", "save", "audit", "final"} =>
            hist[worker[w].job_id].statuses[1] = "starting"

\* a finished run of three chunks that wrote starting, four times processing,
\* and then failed twice (at the final check and again in the handler)
C8_Witness ==
    \E j \in JobIds :
        /\ SyncJob(j) /\ Finished(j)
        /\ hist[j].statuses = <<"starting", "processing", "processing", "processing",
                                "processing", "failed", "failed">>

\* v is an integer that is the id of a record of the list
IsIdOf(local, v) == v[1] = "int" /\ \E i \in DOMAIN local : local[i].id = v[2]

\* the row resolves: approve with a matched_db_id in the mirror, or link with
\* a linked_db_id in the mirror
Resolves(local, row) ==
    \/ row.action = "approve" /\ IsIdOf(local, row.matched_db_id)
    \/ row.action = "link" /\ IsIdOf(local, row.linked_db_id)

\* the id a resolving row is resolved to
ResolvedId(row) ==
    IF row.action = "approve" THEN row.matched_db_id[2] ELSE row.linked_db_id[2]

\* the step in which worker w runs the loop body for its next row
HandlesRow(w) == worker[w].pc = "rows" /\ worker'[w].row = worker[w].row + 1

\* the step in which worker w leaves the row loop with every row skipped
LeavesRowsWithNothing(w) ==
    /\ worker[w].pc = "rows" /\ worker'[w].pc # "rows"
    /\ worker[w].payload = <<>>

\* C9: an approved row produces an outbound payload and a mirror change if and
\* only if its action is approve and its matched_db_id is the id of a mirror
\* record, or its action is link and its linked_db_id is the id of a mirror
\* record; every other row is skipped: no payload, no record changed; and a
\* run whose rows are all skipped ends "complete" without raising and leaves
\* the mirror file as it is.
C9_RowRouting ==
    /\ [][\A w \in Workers :
            HandlesRow(w) =>
                LET row == worker[w].approved[worker[w].row]
                    local == worker[w].local_products
                    after == worker'[w].local_products
                IN  IF Resolves(local, row)
                    THEN /\ worker'[w].payload =
                                Append(worker[w].payload, worker'[w].payload[Len(worker'[w].payload)])
                         /\ worker'[w].payload[Len(worker'[w].payload)].id = ResolvedId(row)
                         /\ \A i \in DOMAIN local :
                                IF local[i].id = ResolvedId(row)
                                THEN /\ after[i].id = local[i].id
                                     /\ after[i].name = row.parsed_name
                                     /\ after[i].shopee_id = row.shopee_id
                                     /\ after[i].lazada_id = row.lazada_id
                                ELSE after[i] = local[i]
                    ELSE /\ worker'[w].payload = worker[w].payload
                         /\ after = local]_vars
    /\ [][\A w \in Workers :
            LeavesRowsWithNothing(w) =>
                /\ jobKey'[worker[w].job_id].status = "complete"
                /\ hist'[worker[w].job_id].result = "returned"
                /\ mirror' = mirror]_vars

\* a run of two rows in which the first (approve, with an id that is not in
\* the mirror) was skipped and the second (link, with an id in the mirror)
\* produced the only payload
C9_Witness ==
    \E w \in Workers :
        /\ worker[w].pc = "rows" /\ worker[w].row = 3
        /\ worker[w].approved[1].action = "approve"
        /\ ~Resolves(mirror, worker[w].approved[1])
        /\ worker[w].approved[2].action = "link"
        /\ Resolves(mirror, worker[w].approved[2])
        /\ Len(worker[w].payload) = 1
        /\ worker[w].payload[1].id = worker[w].approved[2].linked_db_id[2]
        /\ worker[w].local_products # mirror

\* C10: the run builds exactly one payload per resolved row, and the chunks
\* it submits partition the payload list: every chunk has at most 25
\* payloads, every chunk but the last exactly 25, no chunk is empty, and the
\* chunks concatenated in order are the payload list.
C10_ChunksPartitionPayload ==
    \A w \in Workers :
        InChunkPhase(w) =>
            LET payload == worker[w].payload
                chunks == Chunks(payload)
                n == Len(chunks)
            IN  /\ Len(payload) =
                     Cardinality({k \in DOMAIN worker[w].approved :
                                    Resolves(worker[w].local_products, worker[w].approved[k])})
                /\ n = hist[worker[w].job_id].nchunks
                /\ \A c \in 1..n :
                     /\ Len(chunks[c]) >= 1
                     /\ Len(chunks[c]) <= CHUNK_SIZE
                     /\ c < n => Len(chunks[c]) = CHUNK_SIZE
                /\ Flatten(chunks) = payload

\* a run posting the third chunk of a payload list of 51: two chunks of 25
\* and a last chunk of 1, from a list of rows of which every other one was
\* skipped (or none was)
C10_Witness ==
    \E w \in Workers :
        /\ worker[w].pc = "post" /\ worker[w].chunk = 3
        /\ Len(worker[w].payload) = 2 * CHUNK_SIZE + 1
        /\ Len(Chunks(worker[w].payload)[3]) = 1
        /\ Len(Chunks(worker[w].payload)[2]) = CHUNK_SIZE

(***************************************************************************)
(* Properties of the parsers.                                              *)
(***************************************************************************)
NoPrices == [sale_price |-> None, regular_price |-> None]

\* r, in hundredths, is the hundredth nearest to sale / (1 - d/100)
NearestHundredth(r, sale, d) ==
    LET diff == r * (100 - d) - sale * 10000
    IN  2 * (IF diff < 0 THEN 0 - diff ELSE diff) <= 100 - d

\* C19: extract_prices decides its result from the amounts found in the text
\* and the discount found: two or more amounts give the minimum as sale price
\* and the maximum as regular price; one amount and a discount d% give the
\* amount as sale price and, as regular price, sale / (1 - d/100) rounded to
\* two decimals when 0 < d < 100 and None otherwise; one amount and no
\* discount give no sale price and the amount as regular price; no amount
\* gives None twice; and a text whose parsing raises gives None twice.
C19_ExtractPricesCases ==
    (text.kind = "prices" /\ parsed.step = 1) =>
        LET groups == FindPrices(text.value, 1)
            n == Len(groups)
            raises == \E i \in 1..n : AmountRaises(groups[i])
            amount(i) == ParseAmount(groups[i])
            found == DiscountMatch(text.value)[1] > 0
            d == DiscountPercent(text.value)
            r == parsed.prices
        IN  IF raises THEN r = NoPrices
            ELSE /\ n >= 2 =>
                      /\ \E i \in 1..n : r.sale_price = Cents(100 * amount(i))
                      /\ \E i \in 1..n : r.regular_price = Cents(100 * amount(i))
                      /\ \A i \in 1..n : /\ Hundredths(r.sale_price) <= 100 * amount(i)
                                         /\ Hundredths(r.regular_price) >= 100 * amount(i)
                 /\ (n = 1 /\ found) =>
                      /\ r.sale_price = Cents(100 * amount(1))
                      /\ IF 0 < d /\ d < 100
                         THEN /\ r.regular_price # None
                              /\ NearestHundredth(Hundredths(r.regular_price), amount(1), d)
                         ELSE r.regular_price = None
                 /\ (n = 1 /\ ~found) =>
                      /\ r.sale_price = None
                      /\ r.regular_price = Cents(100 * amount(1))
                 /\ n = 0 => r = NoPrices

\* the text "P1000 25%": one amount and a discount, regular price 1333.33
C19_Witness ==
    /\ text.kind = "prices" /\ parsed.step = 1
    /\ text.value = <<"peso", "1", "0", "0", "0", " ", "2", "5", "%">>
    /\ parsed.prices = [sale_price |-> Cents(100000), regular_price |-> Cents(133333)]

\* C20: slugify applied to a slug returns the slug.
C20_SlugifyIdempotent ==
    (text.kind = "slug" /\ parsed.step = 2) => parsed.twice = parsed.once

\* "1.1+" gives "1_1-plus", a slug that differs from the input, and gives it
\* again
C20_Witness ==
    /\ text.kind = "slug" /\ parsed.step = 2
    /\ text.value = <<"1", ".", "1", "+">>
    /\ parsed.once = <<"1", "_", "1", "-", "p", "l", "u", "s">>
    /\ parsed.twice = parsed.once

(***************************************************************************)
(* Properties of the sheet import.                                         *)
(***************************************************************************)
\* worker w stages the row of the cell it is at
StagesRow(w) ==
    /\ worker[w].pc = "import_rows" /\ worker'[w].pc = "import_rows"
    /\ Len(worker'[w].staged_products) = Len(worker[w].staged_products) + 1

\* that cell, and the row staged for it
CellAt(w) == worker[w].grid_data[worker[w].row]
RowStaged(w) == worker'[w].staged_products[Len(worker'[w].staged_products)]

\* the records of db that carry the external product id of the link, for
\* the marketplace of the link
HoldersOfId(db, link) ==
    LET ids == parse_ecommerce_url(link)
    IN  {i \in DOMAIN db :
            /\ ids.product_id # NoneStr
            /\ \/ ids.source = "shopee" /\ db[i].shopee_id = ids.product_id
               \/ ids.source = "lazada" /\ db[i].lazada_id = ids.product_id}

\* the records of db whose name is the cleaned name of the text, up to case
HoldersOfName(db, value) ==
    {i \in DOMAIN db :
        /\ db[i].name # <<>>
        /\ ToLower(db[i].name) = ToLower(clean_product_name(StripSpaces(value)))}

\* C11: a row whose link carries an external product id that a record of the
\* database holds for the link's marketplace is staged MATCHED to such a
\* record, whatever the name in the cell is (also when another record has
\* that name), with the record's name and slug as its name and slug.
C11_IdTierWinsAndOverwrites ==
    [][\A w \in Workers :
         (StagesRow(w) /\ HoldersOfId(worker[w].product_database,
                                      StrOr(CellAt(w).hyperlink, CellAt(w).run_uri)) # {}) =>
             \E i \in HoldersOfId(worker[w].product_database,
                                  StrOr(CellAt(w).hyperlink, CellAt(w).run_uri)) :
                 LET rec == worker[w].product_database[i]
                 IN  /\ RowStaged(w).status = "MATCHED"
                     /\ RowStaged(w).matched_db_id = PyInt(rec.id)
                     /\ RowStaged(w).parsed_name = rec.name
                     /\ RowStaged(w).slug = rec.slug
                     /\ RowStaged(w).matched_db_slug = rec.slug]_vars

\* the cell "Ba P1000" linked to the Shopee product 101: the name is the
\* name of record 2, the id is held by record 1, and the row is staged
\* for record 1 under the name "Ab" and the slug "ab"
C11_Witness ==
    \E w \in Workers :
        /\ worker[w].pc = "import_rows" /\ worker[w].row = 2
        /\ worker[w].grid_data[1] =
               Cell(<<"B", "a", " ", "peso", "1", "0", "0", "0">>, ShopeeUrl1)
        /\ HoldersOfName(worker[w].product_database,
                         worker[w].grid_data[1].formattedValue) = {2}
        /\ Len(worker[w].staged_products) = 1
        /\ worker[w].staged_products[1].status = "MATCHED"
        /\ worker[w].staged_products[1].matched_db_id = PyInt(1)
        /\ worker[w].staged_products[1].parsed_name = <<"A", "b">>
        /\ worker[w].staged_products[1].slug = <<"a", "b">>

\* C12: a row that neither the id tier nor the name tier matches is staged
\* UNMATCHED with no matched_db_id, whatever the best guess is, and its
\* nearest_match is set exactly when the database has a named record; a
\* row staged MATCHED has no nearest_match.
C12_FuzzyNeverMatches ==
    [][\A w \in Workers :
         StagesRow(w) =>
             LET db == worker[w].product_database
                 link == StrOr(CellAt(w).hyperlink, CellAt(w).run_uri)
             IN  /\ (HoldersOfId(db, link) = {}
                     /\ HoldersOfName(db, CellAt(w).formattedValue) = {}) =>
                        /\ RowStaged(w).status = "UNMATCHED"
                        /\ RowStaged(w).matched_db_id = None
                        /\ RowStaged(w).nearest_match # NoName
                             <=> (\E i \in DOMAIN db : db[i].name # <<>>)
                 /\ RowStaged(w).status = "MATCHED" =>
                        RowStaged(w).nearest_match = NoName]_vars

\* the cell "Bb P 2,500 25%" linked to the unknown Shopee product 102 is
\* staged UNMATCHED with the name of a record as its nearest match
C12_Witness ==
    \E w \in Workers :
        /\ worker[w].pc = "import_rows" /\ worker[w].row = 2
        /\ worker[w].grid_data[1].hyperlink = ShopeeUrl2
        /\ worker[w].product_database # <<>>
        /\ Len(worker[w].staged_products) = 1
        /\ worker[w].staged_products[1].status = "UNMATCHED"
        /\ worker[w].staged_products[1].matched_db_id = None
        /\ worker[w].staged_products[1].nearest_match = <<"B", "a">>

\* job j is an import
ImportJob(j) == j <= Len(requests) /\ requests[j].type = "import"

\* the import task of job j stages its rows in this step
StageStep(j) ==
    ImportJob(j) /\ hist[j].result = "none" /\ hist'[j].result = "returned"

\* the rows of job j are saved by save_staged_data in this step
SaveStep(j) ==
    /\ lastGet.code = 200 /\ lastGet.job_id = j
    /\ staging'[j] # staging[j]
    /\ staging'[j].rows \in {AsStagedProducts(rows) : rows \in Edits(lastGet.body)}

C14_StagedRowsGoneAfterSync ==
    (/\ lastGet.synced
     /\ \E s \in JobIds : /\ hist[s].import_job = lastGet.job_id
                          /\ hist[s].npayload > 0
                          /\ hist[s].result = "returned"
                          /\ jobKey[s].status = "complete")
        => ~(lastGet.code = 200 /\ lastGet.body # <<>>)

\* job j is the sync of staged rows
StagedSyncJob(j) == j <= Len(requests) /\ requests[j].type = "approve"

\* the sheet of import job j is fetched and none of its rows raises
SheetGoesThrough(j) ==
    /\ requests[j].sheet_ok
    /\ \A i \in DOMAIN requests[j].rows : ~CellRaises(requests[j].rows[i])

C17_BadRowIsSkipped ==
    \A j \in JobIds :
        (ImportJob(j) /\ requests[j].sheet_ok /\ hist[j].result # "none") =>
            /\ hist[j].result = "returned"
            /\ jobKey[j].status = "complete"
            /\ staging[j].set
            /\ Len(staging[j].rows) =
                 Cardinality({i \in DOMAIN requests[j].rows :
                                /\ ~SkipsCell(requests[j].rows[i])
                                /\ ~CellRaises(requests[j].rows[i])})

\* C15: a sync run that finds the catalog credentials missing stops at once,
\* without reading the mirror, calling the catalog or writing the mirror,
\* with the job status failed, and raises.
C15_MissingCredentialsRaise ==
    ~creds =>
        \A j \in JobIds :
            (SyncJob(j) /\ Finished(j)) =>
                /\ jobKey[j].status = "failed"
                /\ hist[j].posts = <<>>
                /\ hist[j].writes = 0
                /\ hist[j].result = "raised"

(***************************************************************************)
(* Properties of concurrent sync runs.                                     *)
(***************************************************************************)
\* worker w writes the mirror file in this step
WritesMirror(w) == worker[w].pc = "save" /\ worker'[w].pc = "audit"

\* both jobs are syncs that loaded the mirror before any write of it, and
\* both have written it and finished
Raced(j, k) ==
    /\ j # k
    /\ \A l \in {j, k} : /\ SyncJob(l) /\ Finished(l)
                         /\ hist[l].writes = 1
                         /\ hist[l].writes_before_load = 0

\* the records of the mirror that the rows of job j aim at are as they were
\* when the jobs loaded the file
ChangesLost(j) ==
    \A i \in DOMAIN mirror :
        (\E r \in DOMAIN requests[j].rows :
            requests[j].rows[r].matched_db_id = PyInt(mirror[i].id))
        => mirror[i] = MirrorOf(PlainCatalog)[i]

\* C18: the write of the mirror file is the whole in-memory copy of the job
\* that writes; so when two syncs both load the file before either writes
\* it, the changes of one of them to its records are not in the file once
\* both are over, whatever the two job statuses are.
C18_LastWriterWins ==
    /\ [][\A w \in Workers : WritesMirror(w) => mirror' = worker[w].local_products]_vars
    /\ [](pool = Workers =>
            \A j, k \in JobIds : Raced(j, k) => (ChangesLost(j) \/ ChangesLost(k)))

\* both syncs are complete; the file has the new price of record 2 and the
\* history entry for it, and record 1 as it was before the two runs
C18_Witness ==
    /\ pool = Workers
    /\ Raced(1, 2)
    /\ jobKey[1].status = "complete" /\ jobKey[2].status = "complete"
    /\ hist[1].succeeded # <<>> /\ hist[2].succeeded # <<>>
    /\ ChangesLost(1)
    /\ ~ChangesLost(2)
    /\ mirror[1].price_history = <<>>
    /\ Len(mirror[2].price_history) = 2

(***************************************************************************)
(* Properties of the catalog refresh.                                      *)
(***************************************************************************)
\* worker w leaves the listing of the ids for the product loop or the save
LeavesListing(w) == worker[w].pc = "rlist" /\ worker'[w].pc \in {"rfetch", "rsave"}

\* C21: a page of ids whose fetch fails is fetched again, and a page that
\* keeps failing ends the refresh in failure; so the refresh goes on to the
\* products, and to the rewriting of the mirror, only with the ids of every
\* product of the catalog.
C21_ListingFailureIsFatal ==
    [][\A w \in Workers :
            LeavesListing(w) => worker'[w].all_product_ids = SortedIds(DOMAIN catalog)]_vars

(***************************************************************************)
(* Termination of a sync run.                                              *)
(***************************************************************************)
\* C22: a sync run that has started comes to its end when the worker goes
\* on and every call returns or raises: no chunk is submitted more than 3
\* times, and the job status, once "processing", becomes "complete" or
\* "failed".
C22_SyncRunsToCompletion ==
    /\ [](\A j \in JobIds : \A c \in DOMAIN hist[j].posts :
              hist[j].posts[c] <= MAX_API_RETRIES)
    /\ \A j \in JobIds :
          (jobKey[j].status = "processing")
              ~> (jobKey[j].status \in {"complete", "failed"})

\* a run of three chunks is over: the first chunk was submitted 3 times and
\* failed, the last one was submitted twice, and the status is "failed"
C22_Witness ==
    \E j \in JobIds :
        /\ SyncJob(j) /\ Finished(j)
        /\ hist[j].nchunks = 3
        /\ hist[j].posts[1] = MAX_API_RETRIES /\ ~hist[j].succeeded[1]
        /\ hist[j].posts[3] = 2 /\ hist[j].succeeded[3]
        /\ hist[j].statuses[1] = "starting"
        /\ "processing" \in {hist[j].statuses[i] : i \in DOMAIN hist[j].statuses}
        /\ jobKey[j].status = "failed"

(***************************************************************************)
(* The price-history rule of a sync run.                                   *)
(***************************************************************************)
\* a price of a row is there: not null
NotNull(v) == v # None

\* a price of a row is there and is not zero
NotNullNorZero(v) == v # None /\ ~(v[1] \in {"float", "int"} /\ v[2] = 0)

\* the new price of a row: the sale price when both prices are there, else
\* the regular price, else the sale price, None when neither is there
NewPriceOf(row, There(_)) ==
    IF There(row.new_sale_price) /\ There(row.new_regular_price) THEN row.new_sale_price
    ELSE IF There(row.new_regular_price) THEN row.new_regular_price
    ELSE IF There(row.new_sale_price) THEN row.new_sale_price
    ELSE None

\* the stored price of a record: its sale_price, or its regular_price when
\* there is no sale_price (null, empty or zero); None when that is no number
StoredPriceOf(rec) ==
    LET s == rec.sale_price
        v == IF s \in {None, EmptyStr} \/ (s[1] \in {"float", "int"} /\ s[2] = 0)
             THEN rec.regular_price ELSE s
    IN  IF v[1] \in {"str", "float", "int"} THEN v ELSE None

\* the history the rule gives for a record and a row
HistoryByRule(rec, row, today, yesterday, There(_)) ==
    LET new == NewPriceOf(row, There)
        stored == StoredPriceOf(rec)
    IN  IF new # None /\ (stored = None \/ new[2] # stored[2])
        THEN (IF rec.price_history = <<>> /\ stored # None
              THEN <<[date |-> yesterday, price |-> stored[2]]>>
              ELSE rec.price_history)
             \o <<[date |-> today, price |-> new[2]]>>
        ELSE rec.price_history

\* the loop body for each resolved row leaves the history the rule gives
HistoryFollowsRule(There(_)) ==
    \A w \in Workers :
        HandlesRow(w) =>
            LET row == worker[w].approved[worker[w].row]
                local == worker[w].local_products
            IN  Resolves(local, row) =>
                    \A i \in DOMAIN local :
                        local[i].id = ResolvedId(row) =>
                            worker'[w].local_products[i].price_history =
                                HistoryByRule(local[i], row, worker[w].today, day - 1, There)

\* C23 as written: a price of a row is present when it is not null
C23_HistoryRuleNotNull == [][HistoryFollowsRule(NotNull)]_vars

\* C23: for each resolved row the new price is new_sale_price when both
\* prices are present, else new_regular_price, else new_sale_price, a price
\* being present when it is neither null nor zero; the stored price is the
\* record's sale_price, or its regular_price when there is no sale_price.
\* When a new price exists and differs from the stored price, an entry
\* {today, new price} is appended, after an entry {yesterday, stored price}
\* when the history was empty and a stored price existed; otherwise the
\* history is left as it is.
C23_HistoryRule == [][HistoryFollowsRule(NotNullNorZero)]_vars

\* the row with a sale price of 0 and a regular price of 2 has been handled
\* for a record stored at 1 with no history: the history is the stored price
\* and then the regular price
C23_Witness ==
    \E w \in Workers :
        /\ worker[w].pc = "rows" /\ worker[w].row = 2
        /\ worker[w].approved[1].new_sale_price = PyFloat(0)
        /\ worker[w].approved[1].new_regular_price = PyFloat(2)
        /\ mirror[1].price_history = <<>>
        /\ Len(worker[w].local_products[1].price_history) = 2
        /\ worker[w].local_products[1].price_history[1].price = 1
        /\ worker[w].local_products[1].price_history[2].price = 2

(***************************************************************************)
(* The external ids of a record across the marketplaces.                   *)
(***************************************************************************)
\* an external id is there
HasId(v) == v \notin {NoneStr, ""}

\* C24: a row of one marketplace synced to a record leaves the record's id
\* of the other marketplace in the mirror, and the payload does not blank
\* it in the external catalog.
C24_OtherMarketplaceIdKept ==
    [][\A w \in Workers :
          HandlesRow(w) =>
              LET row == worker[w].approved[worker[w].row]
                  local == worker[w].local_products
                  sent == worker'[w].payload[Len(worker'[w].payload)]
              IN  Resolves(local, row) =>
                      \A i \in DOMAIN local :
                          local[i].id = ResolvedId(row) =>
                              /\ (/\ HasId(local[i].shopee_id)
                                  /\ HasId(row.lazada_id) /\ ~HasId(row.shopee_id)) =>
                                    /\ worker'[w].local_products[i].shopee_id = local[i].shopee_id
                                    /\ sent.meta_shopee_id # ""
                              /\ (/\ HasId(local[i].lazada_id)
                                  /\ HasId(row.shopee_id) /\ ~HasId(row.lazada_id)) =>
                                    /\ worker'[w].local_products[i].lazada_id = local[i].lazada_id
                                    /\ sent.meta_lazada_id # ""]_vars

(***************************************************************************)
(* The mirror against what was sent to the external catalog.               *)
(***************************************************************************)
\* a price as a number, whatever it is written as; <<FALSE, 0>> for no
\* price (null, empty or zero)
Amount(v) ==
    IF v[1] \in {"float", "int", "str"} /\ v[2] # 0 THEN <<TRUE, v[2]>> ELSE <<FALSE, 0>>

\* the last item of the payload for the record with this id is item k
LastFor(payload, k) == \A m \in DOMAIN payload : m > k => payload[m].id # payload[k].id

\* C25: when every chunk of a run succeeded, the mirror that the run saves
\* has, for every record a payload was sent for, the sale and regular prices
\* of that payload.
C25_MirrorAgreesWithPayload ==
    [][\A w \in Workers :
          (WritesMirror(w) /\ worker[w].failed_chunks_count = 0) =>
              \A k \in DOMAIN worker[w].payload :
                  LastFor(worker[w].payload, k) =>
                      \A i \in DOMAIN mirror' :
                          mirror'[i].id = worker[w].payload[k].id =>
                              /\ Amount(mirror'[i].sale_price) =
                                     Amount(worker[w].payload[k].sale_price)
                              /\ Amount(mirror'[i].regular_price) =
                                     Amount(worker[w].payload[k].regular_price)]_vars

\* C26: in the mirror file saved by a sync run, a record differs from its
\* value before the run only if the chunk with a payload for that record was
\* accepted by the external catalog.
C26_MirrorNeverAhead ==
    [][\A w \in Workers :
          (WritesMirror(w) /\ hist[worker[w].job_id].writes_before_load = MirrorWrites) =>
              \A i \in DOMAIN mirror' :
                  mirror'[i] # mirror[i] =>
                      \E k \in DOMAIN worker[w].payload :
                          /\ worker[w].payload[k].id = mirror'[i].id
                          /\ hist[worker[w].job_id].accepted[((k - 1) \div CHUNK_SIZE) + 1]]_vars

(***************************************************************************)
(* A second run after a run with a failed chunk.                           *)
(***************************************************************************)
\* the price a record or a product is at: its sale price, else its regular
\* price
PriceAt(r) == IF Amount(r.sale_price)[1] THEN Amount(r.sale_price) ELSE Amount(r.regular_price)

\* the first of two runs of the same rows had a chunk that failed; and the
\* second run is over with every chunk sent and the mirror saved
RerunAfterFailedChunk ==
    /\ SecondRunOfSameRows
    /\ \E c \in DOMAIN hist[1].succeeded : ~hist[1].succeeded[c]

RepairedByRerun ==
    /\ RerunAfterFailedChunk
    /\ Finished(2) /\ jobKey[2].status = "complete" /\ hist[2].writes = 1

\* the record of the mirror and the product of the catalog that a resolved
\* row of the second run is for are at the same price and have the same
\* price history
RowInAgreement(row) ==
    \A i \in DOMAIN mirror :
        mirror[i].id = ResolvedId(row) =>
            /\ PriceAt(catalog[mirror[i].id]) = PriceAt(mirror[i])
            /\ Loads(catalog[mirror[i].id].meta_price_history) = mirror[i].price_history

\* C27: when a run had a failed chunk and sync is run again with the same
\* rows and every chunk succeeds, a payload is sent again for every resolved
\* row, each payload carries the price and the serialized price history that
\* the mirror holds for the record, and afterwards the external catalog and
\* the mirror hold the same price and price history for those rows.
C27_RerunRepairsCatalog ==
    /\ [][\A w \in Workers :
            (RerunAfterFailedChunk /\ HandlesRow(w)) =>
                LET row == worker[w].approved[worker[w].row]
                    local == worker[w].local_products
                    sent == worker'[w].payload[Len(worker'[w].payload)]
                IN  Resolves(local, row) =>
                        /\ Len(worker'[w].payload) = Len(worker[w].payload) + 1
                        /\ \A i \in DOMAIN local :
                              local[i].id = ResolvedId(row) =>
                                  /\ Amount(sent.price) = PriceAt(worker'[w].local_products[i])
                                  /\ sent.meta_price_history =
                                        Dumps(worker'[w].local_products[i].price_history)]_vars
    /\ [](RepairedByRerun =>
            \A r \in DOMAIN requests[2].rows :
                Resolves(mirror, requests[2].rows[r]) => RowInAgreement(requests[2].rows[r]))

(***************************************************************************)
(* The frame of a sync run on the mirror.                                  *)
(***************************************************************************)
\* some row of the run resolves to the record with this id
Targeted(rows, local, id) ==
    \E r \in DOMAIN rows : Resolves(local, rows[r]) /\ ResolvedId(rows[r]) = id

\* C29: the mirror a sync run saves has the same records in the same order
\* as the one it loaded, no record's id changes, and every record that no
\* resolved row is for is saved with all its fields as they were; and so it
\* is row by row in the copy of the run.
C29_SyncFrame ==
    /\ [][\A w \in Workers :
            (WritesMirror(w) /\ hist[worker[w].job_id].writes_before_load = MirrorWrites) =>
                /\ Len(mirror') = Len(mirror)
                /\ \A i \in DOMAIN mirror :
                      /\ mirror'[i].id = mirror[i].id
                      /\ ~Targeted(worker[w].approved, mirror, mirror[i].id) =>
                            mirror'[i] = mirror[i]]_vars
    /\ [][\A w \in Workers :
            HandlesRow(w) =>
                LET row == worker[w].approved[worker[w].row]
                    local == worker[w].local_products
                    after == worker'[w].local_products
                IN  /\ Len(after) = Len(local)
                    /\ \A i \in DOMAIN local :
                          /\ after[i].id = local[i].id
                          /\ ~(Resolves(local, row) /\ ResolvedId(row) = local[i].id) =>
                                after[i] = local[i]]_vars

\* a run of one row for record 2 has saved the mirror: record 2 has the name
\* and the price of the row, and record 1 is as the catalog listing gave it
C29_Witness ==
    /\ Len(requests) >= 1 /\ SyncJob(1) /\ Finished(1) /\ hist[1].writes = 1
    /\ ~SyncJob(2) \/ hist[2].statuses = <<>>
    /\ Targeted(requests[1].rows, mirror, 2)
    /\ ~Targeted(requests[1].rows, mirror, 1)
    /\ Len(mirror) = 2
    /\ mirror[1] = MirrorOf(PlainCatalog)[1] /\ mirror[1].id = 1
    /\ mirror[2].id = 2 /\ mirror[2].name = "sheet name"
    /\ mirror[2].price_history # <<>>

(***************************************************************************)
(* The accounting of a catalog refresh.                                    *)
(***************************************************************************)
\* worker w rewrites the mirror at the end of a refresh
RefreshWrites(w) == worker[w].pc = "rsave" /\ worker'[w].pc = "idle"

\* the ids of the records of a mirror
IdsOf(m) == {m[i].id : i \in DOMAIN m}

\* the ids of a list
Listed(ids) == {ids[i] : i \in DOMAIN ids}

\* C30: in a refresh no product is fetched more than 3 times; each listed
\* id ends either as a record of the rewritten mirror or in failed_ids, not
\* in both and not in neither; and the audit entry the run appends has
\* products_synced_successfully + products_failed_to_sync =
\* total_products_on_wc, whatever its status is.
C30_RefreshAccounting ==
    /\ [](\A w \in Workers :
            worker[w].pc = "rfetch" => worker[w].attempt < MAX_SINGLE_PRODUCT_RETRIES)
    /\ [][\A w \in Workers :
            RefreshWrites(w) =>
                \A id \in Listed(worker[w].all_product_ids) :
                    (id \in IdsOf(mirror')) # (id \in Listed(worker[w].failed_ids))]_vars
    /\ [][Len(auditFile') > Len(auditFile) =>
            LET e == auditFile'[Len(auditFile')]
            IN  /\ Len(auditFile') = Len(auditFile) + 1
                /\ e.products_synced_successfully + e.products_failed_to_sync =
                       e.total_products_on_wc]_vars

(***************************************************************************)
(* An external id from the sheet to the mirror and back.                   *)
(***************************************************************************)
\* C28: if a row with an external product id was synced to a record (action
\* approve or link) and the run saved the mirror, then a later import of a
\* row with the same link is staged MATCHED with that record's id as
\* matched_db_id, whatever its name is.
C28_GoldenKeyRoundTrip ==
    \A s, j \in JobIds :
        (/\ s < j
         /\ hist[s].approved # <<>> /\ hist[s].writes = 1
         /\ ImportJob(j) /\ staging[j].set) =>
            \A r \in DOMAIN hist[s].approved : \A q \in DOMAIN staging[j].rows :
                LET row == hist[s].approved[r]
                    later == staging[j].rows[q]
                IN  (/\ Resolves(mirror, row)
                     /\ HasId(row.shopee_id) \/ HasId(row.lazada_id)
                     /\ later.original_url = row.original_url) =>
                        /\ later.status = "MATCHED"
                        /\ later.matched_db_id = PyInt(ResolvedId(row))

=============================================================================
